---- MODULE Spec2Model ----
(***************************************************************************)
(* GoHashCheckMe: the concurrent processing pipeline (processFiles, worker, *)
(* writeResults), the per-file processor (processFile, runCommand) and the  *)
(* progress counters (ProgressReporter.Update).                             *)
(*                                                                          *)
(* One run of processFiles(files, cfg, auditMap, output) is modelled.  The  *)
(* environment of a run is the file system seen by hashFile (disk), the     *)
(* behaviour of the configured shell command on each file (shell) and       *)
(* whether the staging file can be created (creatable).                     *)
(***************************************************************************)
EXTENDS Integers, Sequences, FiniteSets, Bags, TLC

(***************************************************************************)
(* Bounds of the model                                                      *)
(***************************************************************************)
MaxFiles == 2
MaxWorkers == 2
\* files plus workers of one run
MaxLoad == 4
\* lines of a hashes file or staging file handed to mergeHashFiles
MaxLines == 2
\* calls of processFiles on the same input
MaxRuns == 2
\* words of a command template
MaxTemplate == 3

Names == {"a", "b"}
Hashes == {"h1", "h2"}
Unreadable == "unreadable"
ExitCodes == {-1, 0, 1}

\* cmd.Run() of sh -c: a normal exit with a code, death by a signal, or a
\* failure to start the shell (kind "exit", "signal", "spawn").
SeqsUpTo(S, n) == UNION {[1..k -> S] : k \in 0..n}

\* A Go map[string]string that may be nil: isNil separates the nil map from
\* the empty map, m holds the entries.
NilMap == [isNil |-> TRUE, m |-> <<>>]
MapOf(f) == [isNil |-> FALSE, m |-> f]
HasKey(am, k) == k \in DOMAIN am.m

VARIABLES
  files,          \* processFiles parameter: the list of file names
  cfg,            \* processFiles parameter: the Config
  auditMap,       \* processFiles parameter: the audit map (nil or a map)
  disk,           \* environment: file name -> content hash or Unreadable
  shell,          \* environment: file name -> outcome of the command on it
  creatable,      \* environment: os.Create(hashesFile + ".new") succeeds
  mpc,            \* position of processFiles (the coordinator)
  next,           \* index of the next file the producer loop sends
  jobs,           \* the jobs channel: buffered entries (indices into files)
  jobsClosed,
  results,        \* the results channel: buffered *Result values
  resultsClosed,
  wg,             \* the sync.WaitGroup counter
  wpc,            \* position of each worker goroutine
  job,            \* the entry each worker is processing (0: none)
  result,         \* the *Result each worker holds (<<>> is nil)
  progress,       \* ProgressReporter counters
  wrpc,           \* position of the writer goroutine
  newEncoder,     \* writer: the staging encoder is non-nil
  output,         \* records written to the output sink
  staging,        \* the file hashesFile + ".new"
  log,            \* diagnostics written by logError
  panicked,       \* a send on a closed channel happened
  trace,          \* history: what happened to each entry of files
  store,          \* the file cfg.hashesFile
  exit,           \* the process: Running, or the status it exited with
  loaded,         \* history: the call of loadAuditFile in main
  merged,         \* history: the call of mergeHashFiles in main
  stdout,         \* records that reached standard output
  prev,           \* history: the earlier calls of processFiles
  call,           \* a call of runCommand: the template, the file name and
                  \* the command line built for sh -c
  encodes         \* environment: Encode succeeds on the output sink and on
                  \* the staging file

vars == <<files, cfg, auditMap, disk, shell, creatable, mpc, next, jobs,
          jobsClosed, results, resultsClosed, wg, wpc, job, result, progress,
          wrpc, newEncoder, output, staging, log, panicked, trace, store,
          exit, loaded, merged, stdout, prev,
          call, encodes>>

params == <<files, cfg, auditMap, disk, shell, creatable, store, exit,
            loaded, merged, prev, call, encodes>>

N == Len(files)
Workers == 1..cfg.workers

(***************************************************************************)
(* Types                                                                    *)
(***************************************************************************)
Result(f, h) == [filename |-> f, hash |-> h, exit_code |-> 0,
                 audited |-> FALSE, changed |-> FALSE]
AuditEntry(f, h) == [filename |-> f, hash |-> h]

NoStaging == [exists |-> FALSE, open |-> FALSE, entries |-> <<>>]

\* A file of JSON lines as loadAuditFile sees it: absent, unreadable, or a
\* sequence of lines, each an AuditEntry or a line that does not decode
NoFile == [exists |-> FALSE, readable |-> TRUE, entries |-> <<>>]
FileOf(es) == [exists |-> TRUE, readable |-> TRUE, entries |-> es]
UnreadableFile == [exists |-> TRUE, readable |-> FALSE, entries |-> <<>>]
Malformed == [filename |-> "", hash |-> "malformed"]

(***************************************************************************)
(* processFile, split at its two calls into the environment                 *)
(***************************************************************************)
hashFile(f) == disk[f]

\* Mutant of AuditCheck: the lookup's "exists" result is ignored, so a file
\* without an entry is compared with the zero value of the map
AuditCheckNoExists(f, h) ==
  IF ~auditMap.isNil
    THEN [Result(f, h) EXCEPT !.audited = HasKey(auditMap, f),
                              !.changed = (h # IF HasKey(auditMap, f)
                                                 THEN auditMap.m[f] ELSE "")]
    ELSE Result(f, h)

\* Check audit if available
AuditCheck(f, h) ==
  IF ~auditMap.isNil /\ HasKey(auditMap, f)
    THEN [Result(f, h) EXCEPT !.audited = TRUE, !.changed = (h # auditMap.m[f])]
    ELSE Result(f, h)

\* Mutant of shouldRunCommand: audit mode does not gate the command
shouldRunCommandAlways(r) == cfg.command # ""

shouldRunCommand(r) == cfg.command # "" /\ (~cfg.audit \/ r.changed)

\* The value runCommand returns for an outcome of cmd.Run()
ExitCodeOf(o) ==
  CASE o.kind = "exit" -> o.code
    [] o.kind = "signal" -> -1
    [] o.kind = "spawn" -> -1

runCommand(f) == ExitCodeOf(shell[f])

\* Mutant of runCommandLogs: every command that did not exit is logged
runCommandLogsAnyFailure(f) == shell[f].kind # "exit" /\ ~cfg.quiet

\* runCommand logs when err is not an *exec.ExitError
runCommandLogs(f) == shell[f].kind = "spawn" /\ ~cfg.quiet

\* Mutant of MinusOneRejected: -1 passes when either set lists it
MinusOneRejectedUnlessListed(code) ==
  code = -1 /\ cfg.filterOnCodes /\ -1 \notin cfg.errorCodes
    /\ -1 \notin cfg.successCodes

\* Handle -1 exit code (command execution error) specially
MinusOneRejected(code) ==
  code = -1 /\ cfg.filterOnCodes /\ -1 \notin cfg.errorCodes

\* Mutant of CodeRejected: the filter is applied even when it is disabled
CodeRejectedAlways(code) ==
  code \notin cfg.successCodes /\ code \notin cfg.errorCodes

\* Mutant of CodeRejected: only the success set is consulted
CodeRejectedSuccessOnly(code) ==
  cfg.filterOnCodes /\ code \notin cfg.successCodes

\* Filter based on success/error codes
CodeRejected(code) ==
  cfg.filterOnCodes /\ code \notin cfg.successCodes /\ code \notin cfg.errorCodes

\* What processFile returns once the command has returned code
Classify(r, code) ==
  IF MinusOneRejected(code) THEN <<>>
  ELSE IF CodeRejected(code) THEN <<>>
  ELSE <<[r EXCEPT !.exit_code = code]>>

\* Mutant of Skipped: the default exit code 0 is classified like a real one
SkippedClassified(r) == Classify(r, 0)

\* What processFile returns when the command is not run
Skipped(r) == <<r>>

\* processFile(filename, cfg, auditMap) as one function of its inputs
processFile(f) ==
  IF hashFile(f) = Unreadable THEN <<>>
  ELSE LET r == AuditCheck(f, hashFile(f))
       IN IF shouldRunCommand(r) THEN Classify(r, runCommand(f)) ELSE Skipped(r)

LogEntry(kind, i) == [kind |-> kind, file |-> IF i = 0 THEN "" ELSE files[i], entry |-> i]

(***************************************************************************)
(* runCommand: the command line.  A string is the sequence of its words;   *)
(* no word contains another, so a substring test is a test on words.       *)
(***************************************************************************)
Placeholder == "$FILE"
standaloneCommands == {"exit", "true", "false"}
\* The words a template is made of: the placeholder, the standalone verbs,
\* the blank, a command name and an argument
Words == {Placeholder, " ", "cat", "1"} \cup standaloneCommands

\* "'" + filename + "'"
Quoted(filename) == <<"'", filename, "'">>

\* strings.Contains(command, "$FILE")
HasPlaceholder(command) == \E i \in DOMAIN command : command[i] = Placeholder

\* strings.Replace(command, "$FILE", "'"+filename+"'", n): the first n
\* occurrences are replaced, all of them when n < 0
RECURSIVE Replace(_, _, _)
Replace(command, filename, n) ==
  IF command = <<>> \/ n = 0 THEN command
  ELSE IF Head(command) = Placeholder
    THEN Quoted(filename) \o Replace(Tail(command), filename, n - 1)
    ELSE <<Head(command)>> \o Replace(Tail(command), filename, n)

\* Mutant of ReplaceAll: only the first occurrence is replaced
ReplaceFirst(command, filename) == Replace(command, filename, 1)

\* strings.ReplaceAll(command, "$FILE", "'"+filename+"'")
ReplaceAll(command, filename) == Replace(command, filename, -1)

\* command == standalone || strings.HasPrefix(command, standalone+" ")
IsStandalone(command) ==
  \E standalone \in standaloneCommands :
    \/ command = <<standalone>>
    \/ Len(command) >= 2 /\ command[1] = standalone /\ command[2] = " "

\* The command line runCommand hands to sh -c
BuildCommand(command, filename) ==
  IF HasPlaceholder(command) THEN ReplaceAll(command, filename)
  ELSE IF IsStandalone(command) THEN command
  ELSE command \o <<" ">> \o Quoted(filename)

(***************************************************************************)
(* The hashes file: loadAuditFile and mergeHashFiles                        *)
(***************************************************************************)
WellFormed(es) == \A i \in DOMAIN es : es[i] # Malformed

\* auditMap[entry.Filename] = entry.Hash for each line in turn: the last
\* line of a file name wins
MapOfEntries(es) ==
  [k \in {es[i].filename : i \in DOMAIN es} |->
     LET last == CHOOSE i \in DOMAIN es :
                   /\ es[i].filename = k
                   /\ \A j \in DOMAIN es : es[j].filename = k => j <= i
     IN es[last].hash]

\* Mutant of loadAuditFile: a missing file is an error like an unreadable one
loadAuditFileStrict(filename, f, canCreate) ==
  IF filename = "" THEN [exit |-> FALSE, map |-> NilMap, file |-> f]
  ELSE IF ~f.exists \/ ~f.readable \/ ~WellFormed(f.entries)
    THEN [exit |-> TRUE, map |-> NilMap, file |-> f]
  ELSE [exit |-> FALSE, map |-> MapOf(MapOfEntries(f.entries)), file |-> f]

\* Mutant of loadAuditFile: a line that does not decode is skipped
loadAuditFileLenient(filename, f, canCreate) ==
  IF filename = "" THEN [exit |-> FALSE, map |-> NilMap, file |-> f]
  ELSE IF ~f.exists
    THEN IF canCreate
           THEN [exit |-> FALSE, map |-> MapOf(<<>>), file |-> FileOf(<<>>)]
           ELSE [exit |-> TRUE, map |-> NilMap, file |-> f]
  ELSE IF ~f.readable THEN [exit |-> TRUE, map |-> NilMap, file |-> f]
  ELSE LET Decodes(e) == e # Malformed
       IN [exit |-> FALSE, file |-> f,
           map |-> MapOf(MapOfEntries(SelectSeq(f.entries, Decodes)))]

\* Mutant of loadAuditFile: no file name gives an empty map instead of nil
loadAuditFileNeverNil(filename, f, canCreate) ==
  IF filename = "" THEN [exit |-> FALSE, map |-> MapOf(<<>>), file |-> f]
  ELSE IF ~f.exists
    THEN IF canCreate
           THEN [exit |-> FALSE, map |-> MapOf(<<>>), file |-> FileOf(<<>>)]
           ELSE [exit |-> TRUE, map |-> NilMap, file |-> f]
  ELSE IF ~f.readable THEN [exit |-> TRUE, map |-> NilMap, file |-> f]
  ELSE IF ~WellFormed(f.entries) THEN [exit |-> TRUE, map |-> NilMap, file |-> f]
  ELSE [exit |-> FALSE, map |-> MapOf(MapOfEntries(f.entries)), file |-> f]

\* loadAuditFile(filename) on the file f; canCreate: os.Create(filename)
\* succeeds.  exit: os.Exit(1) was called; file: f after the call.
loadAuditFile(filename, f, canCreate) ==
  IF filename = "" THEN [exit |-> FALSE, map |-> NilMap, file |-> f]
  ELSE IF ~f.exists
    THEN IF canCreate
           THEN [exit |-> FALSE, map |-> MapOf(<<>>), file |-> FileOf(<<>>)]
           ELSE [exit |-> TRUE, map |-> NilMap, file |-> f]
  ELSE IF ~f.readable THEN [exit |-> TRUE, map |-> NilMap, file |-> f]
  ELSE IF ~WellFormed(f.entries) THEN [exit |-> TRUE, map |-> NilMap, file |-> f]
  ELSE [exit |-> FALSE, map |-> MapOf(MapOfEntries(f.entries)), file |-> f]

\* Mutant of NothingToMerge: the os.Stat check is missing
NothingToMergeNever(ng) == FALSE

\* if _, err := os.Stat(newFile); os.IsNotExist(err) { return }
NothingToMerge(ng) == ~ng.exists

\* Mutant of MergeMaps: an existing hash is kept over a new one
MergeMapsKeepExisting(e, n) ==
  [k \in DOMAIN e \cup DOMAIN n |-> IF k \in DOMAIN e THEN e[k] ELSE n[k]]

\* Mutant of MergeMaps: only the new hashes are written
MergeMapsNewOnly(e, n) == n

\* for filename, hash := range newHashes { existingHashes[filename] = hash }
MergeMaps(e, n) ==
  [k \in DOMAIN e \cup DOMAIN n |-> IF k \in DOMAIN n THEN n[k] ELSE e[k]]

\* mergeHashFiles(cfg.hashesFile) on the store file st and the staging file
\* ng.  canCreate: os.Create inside loadAuditFile succeeds; createOK:
\* os.Create(hashesFile) succeeds; lost: the file names whose
\* encoder.Encode fails; order: the order in which range visits the map.
mergeHashFiles(st, ng, canCreate, createOK, lost, order) ==
  IF NothingToMerge(ng)
    THEN [store |-> st, staging |-> ng, exit |-> FALSE, outcome |-> "nothing"]
  ELSE
    LET e == loadAuditFile(cfg.hashesFile, st, canCreate)
        n == loadAuditFile(cfg.hashesFile \o ".new",
                           [exists |-> ng.exists, readable |-> TRUE,
                            entries |-> ng.entries], canCreate)
        existingHashes == IF e.map.isNil THEN <<>> ELSE e.map.m
    IN IF e.exit
         THEN [store |-> e.file, staging |-> ng, exit |-> TRUE, outcome |-> "exit"]
       ELSE IF n.exit
         THEN [store |-> e.file, staging |-> ng, exit |-> TRUE, outcome |-> "exit"]
       ELSE IF n.map.isNil
         THEN [store |-> e.file, staging |-> NoStaging, exit |-> FALSE,
               outcome |-> "removed"]
       ELSE IF ~createOK
         THEN [store |-> e.file, staging |-> ng, exit |-> FALSE,
               outcome |-> "createFailed"]
       ELSE
         LET m == MergeMaps(existingHashes, n.map.m)
             Encoded(k) == k \in DOMAIN m /\ k \notin lost
             written == SelectSeq(order, Encoded)
         IN [store |-> FileOf([i \in 1..Len(written) |->
                                 AuditEntry(written[i], m[written[i]])]),
             staging |-> NoStaging, exit |-> FALSE,
             outcome |-> IF lost \cap DOMAIN m = {} THEN "merged"
                                                   ELSE "writeFailed"]

(***************************************************************************)
(* Initial states                                                           *)
(***************************************************************************)
NoTrace == [taken |-> 0, hashed |-> 0, ran |-> 0, code |-> 0,
            done |-> FALSE, res |-> <<>>, sent |-> 0]

\* The value of exit while the process runs
Running == -1

\* args: the files named on the command line or on standard input
NotLoaded == [called |-> FALSE, file |-> NoFile, canCreate |-> FALSE,
              args |-> <<>>]
NotMerged == [called |-> FALSE, store |-> NoFile, staging |-> NoStaging,
              canCreate |-> FALSE, createOK |-> FALSE, lost |-> {},
              outcome |-> "none"]

\* encoder.Encode and newEncoder.Encode never fail
Reliable == [output |-> TRUE, staging |-> TRUE]

NoCall == [template |-> <<>>, filename |-> "", command |-> <<>>, built |-> FALSE]

\* No earlier call of processFiles: prev holds the final trace of each
NoPrev == <<>>

\* The state of processFiles when it is entered
Fresh ==
  /\ next = 1
  /\ jobs = <<>>
  /\ jobsClosed = FALSE
  /\ results = <<>>
  /\ resultsClosed = FALSE
  /\ wg = 0
  /\ wpc = [w \in Workers |-> "unstarted"]
  /\ job = [w \in Workers |-> 0]
  /\ result = [w \in Workers |-> <<>>]
  /\ progress = [processed |-> 0, changed |-> 0, errors |-> 0]
  /\ wrpc = "unstarted"
  /\ newEncoder = FALSE
  /\ output = <<>>
  /\ log = {}
  /\ panicked = FALSE
  /\ trace = [i \in 1..N |-> NoTrace]
  /\ exit = Running
  /\ merged = NotMerged
  /\ stdout = <<>>
  /\ prev = NoPrev
  /\ call = NoCall

\* processFiles is entered directly, with no hashes file on disk
Start ==
  /\ mpc = "spawn"
  /\ staging = NoStaging
  /\ store = NoFile
  /\ loaded = NotLoaded
  /\ Fresh

Exit(c) == [kind |-> "exit", code |-> c]
Signalled == [kind |-> "signal", code |-> 0]
SpawnFailed == [kind |-> "spawn", code |-> 0]

\* The environment of file "a" varies, file "b" is a readable file on which
\* the command succeeds.
Disks(hs) == {[n \in Names |-> IF n = "a" THEN h ELSE "h1"] : h \in hs}
Shells(os) == {[n \in Names |-> IF n = "a" THEN o ELSE Exit(0)] : o \in os}

\* parseFlags: filterOnCodes = len(successCodes) > 0 || len(errorCodes) > 0
Parsed(c) == c.filterOnCodes = (c.successCodes # {} \/ c.errorCodes # {})

\* Runs of the pipeline: any list of at most MaxFiles files, any number of
\* workers up to MaxWorkers (at most MaxLoad together), a configuration as
\* main builds it.
Init ==
  /\ files \in SeqsUpTo(Names, MaxFiles)
  /\ cfg \in {c \in [command : {"cmd"}, hashesFile : {"hashes.jsonl"},
                     audit : BOOLEAN, update : BOOLEAN,
                     successCodes : {{}, {0}}, errorCodes : {{}},
                     filterOnCodes : BOOLEAN, workers : 1..MaxWorkers,
                     quiet : {FALSE}] : Parsed(c)}
  /\ auditMap \in {NilMap, MapOf("a" :> "h1"), MapOf("a" :> "h2")}
  /\ disk \in Disks({"h1", Unreadable})
  /\ shell \in Shells({Exit(0), Exit(1)})
  /\ creatable = TRUE
  /\ encodes = Reliable
  /\ Len(files) + cfg.workers <= MaxLoad
  /\ Start

\* Runs on one file with one worker: every Config a caller can build (the
\* tests build Configs by hand), every audit map, every outcome.
InitProcessFile ==
  /\ files = <<"a">>
  /\ cfg \in [command : {"", "cmd"}, hashesFile : {""},
              audit : BOOLEAN, update : {FALSE},
              successCodes : SUBSET ExitCodes, errorCodes : SUBSET ExitCodes,
              filterOnCodes : BOOLEAN, workers : {1}, quiet : BOOLEAN]
  /\ auditMap \in {NilMap, MapOf(<<>>), MapOf("a" :> "h1"), MapOf("a" :> "h2")}
  /\ disk \in Disks({"h1", Unreadable})
  /\ shell \in Shells({Exit(0), Exit(1), Signalled, SpawnFailed})
  /\ creatable = TRUE
  /\ encodes = Reliable
  /\ Start

(***************************************************************************)
(* processFiles: the coordinator                                            *)
(***************************************************************************)
\* for range cfg.workers { wg.Add(1); go worker(...) }
StartWorkers ==
  /\ mpc = "spawn"
  /\ wg' = wg + cfg.workers
  /\ wpc' = [w \in Workers |-> "recv"]
  /\ mpc' = "send"
  /\ UNCHANGED <<params, next, jobs, jobsClosed, results, resultsClosed, job,
                 result, progress, wrpc, newEncoder, output, stdout, staging, log,
                 panicked, trace>>

\* jobs := make(chan string, len(files))
JobsCap == N

\* Mutant of ResultsCap: the results channel is one entry short
ResultsCapShort == N - 1

\* results := make(chan *Result, len(files))
ResultsCap == N

\* jobs <- file   (blocks while the buffer of capacity len(files) is full)
SendJob ==
  /\ mpc = "send"
  /\ next <= N
  /\ Len(jobs) < JobsCap
  /\ jobs' = Append(jobs, next)
  /\ next' = next + 1
  /\ UNCHANGED <<params, mpc, jobsClosed, results, resultsClosed, wg, wpc, job,
                 result, progress, wrpc, newEncoder, output, stdout, staging, log,
                 panicked, trace>>

\* Mutant of CloseJobs: the producer does not close the jobs channel
CloseJobsNoClose ==
  /\ mpc = "send"
  /\ next > N
  /\ mpc' = "startWriter"
  /\ UNCHANGED <<params, next, jobs, jobsClosed, results, resultsClosed, wg,
                 wpc, job, result, progress, wrpc, newEncoder, output, stdout,
                 staging, log, panicked, trace>>

\* close(jobs)
CloseJobs ==
  /\ mpc = "send"
  /\ next > N
  /\ jobsClosed' = TRUE
  /\ mpc' = "startWriter"
  /\ UNCHANGED <<params, next, jobs, results, resultsClosed, wg, wpc, job,
                 result, progress, wrpc, newEncoder, output, stdout, staging, log,
                 panicked, trace>>

\* go writeResults(results, output, done, cfg)
StartWriter ==
  /\ mpc = "startWriter"
  /\ wrpc' = "create"
  /\ mpc' = "wait"
  /\ UNCHANGED <<params, next, jobs, jobsClosed, results, resultsClosed, wg,
                 wpc, job, result, progress, newEncoder, output, stdout, staging, log,
                 panicked, trace>>

\* Mutant of WaitWorkers: the coordinator does not wait for the workers
WaitWorkersNoWait ==
  /\ mpc = "wait"
  /\ mpc' = "closeResults"
  /\ UNCHANGED <<params, next, jobs, jobsClosed, results, resultsClosed, wg,
                 wpc, job, result, progress, wrpc, newEncoder, output, stdout, staging,
                 log, panicked, trace>>

\* wg.Wait(); close(results)
WaitWorkers ==
  /\ mpc = "wait"
  /\ wg = 0
  /\ mpc' = "closeResults"
  /\ UNCHANGED <<params, next, jobs, jobsClosed, results, resultsClosed, wg,
                 wpc, job, result, progress, wrpc, newEncoder, output, stdout, staging,
                 log, panicked, trace>>

CloseResults ==
  /\ mpc = "closeResults"
  /\ resultsClosed' = TRUE
  /\ mpc' = "waitDone"
  /\ UNCHANGED <<params, next, jobs, jobsClosed, results, wg, wpc, job, result,
                 progress, wrpc, newEncoder, output, stdout, staging, log, panicked,
                 trace>>

\* Mutant of ReceiveDone: the coordinator does not wait for the writer
ReceiveDoneNoWait ==
  /\ mpc = "waitDone"
  /\ mpc' = "finish"
  /\ UNCHANGED <<params, next, jobs, jobsClosed, results, resultsClosed, wg,
                 wpc, job, result, progress, wrpc, newEncoder, output, stdout,
                 staging, log, panicked, trace>>

\* <-done meets the writer's done <- true (done is unbuffered)
ReceiveDone ==
  /\ mpc = "waitDone"
  /\ wrpc = "signal"
  /\ mpc' = "finish"
  /\ wrpc' = "exited"
  /\ UNCHANGED <<params, next, jobs, jobsClosed, results, resultsClosed, wg,
                 wpc, job, result, progress, newEncoder, output, stdout, staging, log,
                 panicked, trace>>

\* progress.Finish(); return
Finish ==
  /\ mpc = "finish"
  /\ mpc' = "returned"
  /\ UNCHANGED <<params, next, jobs, jobsClosed, results, resultsClosed, wg,
                 wpc, job, result, progress, wrpc, newEncoder, output, stdout, staging,
                 log, panicked, trace>>

(***************************************************************************)
(* worker                                                                   *)
(***************************************************************************)
\* Mutant of WorkerReceive: the entry is read but left in the queue
WorkerReceivePeek(w) ==
  /\ wpc[w] = "recv"
  /\ jobs # <<>>
  /\ job' = [job EXCEPT ![w] = Head(jobs)]
  /\ wpc' = [wpc EXCEPT ![w] = "hash"]
  /\ trace' = [trace EXCEPT ![Head(jobs)].taken = @ + 1]
  /\ UNCHANGED <<params, mpc, next, jobs, jobsClosed, results, resultsClosed,
                 wg, result, progress, wrpc, newEncoder, output, stdout, staging, log,
                 panicked>>

\* for filename := range jobs   (an entry is buffered: take it)
WorkerReceive(w) ==
  /\ wpc[w] = "recv"
  /\ jobs # <<>>
  /\ job' = [job EXCEPT ![w] = Head(jobs)]
  /\ jobs' = Tail(jobs)
  /\ wpc' = [wpc EXCEPT ![w] = "hash"]
  /\ trace' = [trace EXCEPT ![Head(jobs)].taken = @ + 1]
  /\ UNCHANGED <<params, mpc, next, jobsClosed, results, resultsClosed, wg,
                 result, progress, wrpc, newEncoder, output, stdout, staging, log,
                 panicked>>

\* Mutant of WorkerExit: the worker leaves as soon as the queue is empty,
\* closed or not
WorkerExitWhenEmpty(w) ==
  /\ wpc[w] = "recv"
  /\ jobs = <<>>
  /\ wg' = wg - 1
  /\ wpc' = [wpc EXCEPT ![w] = "exited"]
  /\ UNCHANGED <<params, mpc, next, jobs, jobsClosed, results, resultsClosed,
                 job, result, progress, wrpc, newEncoder, output, stdout, staging, log,
                 panicked, trace>>

\* for filename := range jobs   (closed and drained: leave the loop);
\* defer wg.Done()
WorkerExit(w) ==
  /\ wpc[w] = "recv"
  /\ jobs = <<>>
  /\ jobsClosed
  /\ wg' = wg - 1
  /\ wpc' = [wpc EXCEPT ![w] = "exited"]
  /\ UNCHANGED <<params, mpc, next, jobs, jobsClosed, results, resultsClosed,
                 job, result, progress, wrpc, newEncoder, output, stdout, staging, log,
                 panicked, trace>>

\* Where the worker goes once processFile has returned ptr
AfterProcessFile(w, ptr) ==
  /\ result' = [result EXCEPT ![w] = ptr]
  /\ wpc' = [wpc EXCEPT ![w] = "update"]

\* Mutant of WorkerHash: the worker records the hash it computed in the
\* audit map
WorkerHashRecords(w) ==
  /\ wpc[w] = "hash"
  /\ LET i == job[w]
         f == files[i]
         h == hashFile(f)
     IN IF h = Unreadable
          THEN /\ log' = IF cfg.quiet THEN log ELSE log \cup {LogEntry("hash", i)}
               /\ AfterProcessFile(w, <<>>)
               /\ trace' = [trace EXCEPT ![i].done = TRUE]
               /\ auditMap' = auditMap
          ELSE LET r == AuditCheck(f, h)
               IN /\ log' = log
                  /\ auditMap' = IF auditMap.isNil THEN auditMap
                                  ELSE MapOf([k \in DOMAIN auditMap.m \cup {f} |->
                                                IF k = f THEN h ELSE auditMap.m[k]])
                  /\ IF shouldRunCommand(r)
                       THEN /\ result' = [result EXCEPT ![w] = <<r>>]
                            /\ wpc' = [wpc EXCEPT ![w] = "command"]
                            /\ trace' = [trace EXCEPT ![i].hashed = @ + 1]
                       ELSE /\ AfterProcessFile(w, Skipped(r))
                            /\ trace' = [trace EXCEPT ![i].hashed = @ + 1,
                                                      ![i].done = TRUE,
                                                      ![i].res = Skipped(r)]
  /\ UNCHANGED <<files, cfg, disk, shell, creatable, store, exit, loaded,
                 merged, prev, call, encodes, mpc, next, jobs, jobsClosed, results,
                 resultsClosed, wg, job, progress, wrpc, newEncoder, output,
                 stdout, staging, panicked>>

\* Mutant of WorkerHash: the error of hashFile is logged but processFile
\* goes on with the empty hash
WorkerHashGoesOn(w) ==
  /\ wpc[w] = "hash"
  /\ LET i == job[w]
         f == files[i]
         h == hashFile(f)
         r == AuditCheck(f, IF h = Unreadable THEN "" ELSE h)
     IN /\ log' = IF h = Unreadable /\ ~cfg.quiet
                    THEN log \cup {LogEntry("hash", i)} ELSE log
        /\ IF shouldRunCommand(r)
             THEN /\ result' = [result EXCEPT ![w] = <<r>>]
                  /\ wpc' = [wpc EXCEPT ![w] = "command"]
                  /\ trace' = [trace EXCEPT ![i].hashed =
                                  IF h = Unreadable THEN @ ELSE @ + 1]
             ELSE /\ AfterProcessFile(w, Skipped(r))
                  /\ trace' = [trace EXCEPT ![i].hashed =
                                  IF h = Unreadable THEN @ ELSE @ + 1,
                                            ![i].done = TRUE,
                                            ![i].res = Skipped(r)]
  /\ UNCHANGED <<params, mpc, next, jobs, jobsClosed, results, resultsClosed,
                 wg, job, progress, wrpc, newEncoder, output, stdout, staging,
                 panicked>>

\* processFile up to the decision to run the command: hashFile, the audit
\* lookup and shouldRunCommand
WorkerHash(w) ==
  /\ wpc[w] = "hash"
  /\ LET i == job[w]
         f == files[i]
         h == hashFile(f)
     IN IF h = Unreadable
          THEN /\ log' = IF cfg.quiet THEN log ELSE log \cup {LogEntry("hash", i)}
               /\ AfterProcessFile(w, <<>>)
               /\ trace' = [trace EXCEPT ![i].done = TRUE]
          ELSE LET r == AuditCheck(f, h)
               IN /\ log' = log
                  /\ IF shouldRunCommand(r)
                       THEN /\ result' = [result EXCEPT ![w] = <<r>>]
                            /\ wpc' = [wpc EXCEPT ![w] = "command"]
                            /\ trace' = [trace EXCEPT ![i].hashed = @ + 1]
                       ELSE /\ AfterProcessFile(w, Skipped(r))
                            /\ trace' = [trace EXCEPT ![i].hashed = @ + 1,
                                                      ![i].done = TRUE,
                                                      ![i].res = Skipped(r)]
  /\ UNCHANGED <<params, mpc, next, jobs, jobsClosed, results, resultsClosed,
                 wg, job, progress, wrpc, newEncoder, output, stdout, staging, panicked>>

\* processFile from runCommand to its return: the command and the
\* classification of its exit code
WorkerCommand(w) ==
  /\ wpc[w] = "command"
  /\ LET i == job[w]
         f == files[i]
         code == runCommand(f)
         ptr == Classify(result[w][1], code)
     IN /\ log' = log \cup (IF runCommandLogs(f) THEN {LogEntry("run", i)} ELSE {})
                      \cup (IF MinusOneRejected(code) /\ ~cfg.quiet
                              THEN {LogEntry("hint", i)} ELSE {})
        /\ AfterProcessFile(w, ptr)
        /\ trace' = [trace EXCEPT ![i].ran = @ + 1, ![i].code = code,
                                  ![i].done = TRUE, ![i].res = ptr]
  /\ UNCHANGED <<params, mpc, next, jobs, jobsClosed, results, resultsClosed,
                 wg, job, progress, wrpc, newEncoder, output, stdout, staging, panicked>>

\* Mutant of Changed: a file without a Result is counted as changed
ChangedNilToo(ptr) == ptr = <<>> \/ ptr[1].changed

\* changed := result != nil && result.Changed
Changed(ptr) == ptr # <<>> /\ ptr[1].changed

\* Mutant of Errored: a nil result is not counted
ErroredNever(ptr) == FALSE

\* Mutant of Errored: every file is counted as an error
ErroredAlways(ptr) == TRUE

\* errored := result == nil
Errored(ptr) == ptr = <<>>

\* if result != nil { results <- result }, else back to the loop head
AfterUpdate(ptr) == IF ptr = <<>> THEN "recv" ELSE "send"

\* Mutant of UpdateProcessed: only files that have a Result are counted
UpdateProcessedKept(w) ==
  /\ wpc[w] = "update"
  /\ progress' = [progress EXCEPT !.processed =
                    IF result[w] = <<>> THEN @ ELSE @ + 1]
  /\ wpc' = [wpc EXCEPT ![w] = IF Changed(result[w]) THEN "updateChanged"
                               ELSE IF Errored(result[w]) THEN "updateErrors"
                               ELSE AfterUpdate(result[w])]
  /\ UNCHANGED <<params, mpc, next, jobs, jobsClosed, results, resultsClosed,
                 wg, job, result, wrpc, newEncoder, output, stdout, staging,
                 log, panicked, trace>>

\* progress.Update: atomic.AddInt32(&p.processed, 1)
UpdateProcessed(w) ==
  /\ wpc[w] = "update"
  /\ progress' = [progress EXCEPT !.processed = @ + 1]
  /\ wpc' = [wpc EXCEPT ![w] = IF Changed(result[w]) THEN "updateChanged"
                               ELSE IF Errored(result[w]) THEN "updateErrors"
                               ELSE AfterUpdate(result[w])]
  /\ UNCHANGED <<params, mpc, next, jobs, jobsClosed, results, resultsClosed,
                 wg, job, result, wrpc, newEncoder, output, stdout, staging, log,
                 panicked, trace>>

\* progress.Update: if changed { atomic.AddInt32(&p.changed, 1) }
UpdateChanged(w) ==
  /\ wpc[w] = "updateChanged"
  /\ progress' = [progress EXCEPT !.changed = @ + 1]
  /\ wpc' = [wpc EXCEPT ![w] = IF Errored(result[w]) THEN "updateErrors"
                               ELSE AfterUpdate(result[w])]
  /\ UNCHANGED <<params, mpc, next, jobs, jobsClosed, results, resultsClosed,
                 wg, job, result, wrpc, newEncoder, output, stdout, staging, log,
                 panicked, trace>>

\* progress.Update: if errored { atomic.AddInt32(&p.errors, 1) }
UpdateErrors(w) ==
  /\ wpc[w] = "updateErrors"
  /\ progress' = [progress EXCEPT !.errors = @ + 1]
  /\ wpc' = [wpc EXCEPT ![w] = AfterUpdate(result[w])]
  /\ UNCHANGED <<params, mpc, next, jobs, jobsClosed, results, resultsClosed,
                 wg, job, result, wrpc, newEncoder, output, stdout, staging, log,
                 panicked, trace>>

\* results <- result   (blocks while the buffer of capacity len(files) is
\* full; a send on a closed channel panics)
WorkerSend(w) ==
  /\ wpc[w] = "send"
  /\ IF resultsClosed
       THEN /\ panicked' = TRUE
            /\ UNCHANGED <<results, trace>>
       ELSE /\ Len(results) < ResultsCap
            /\ results' = Append(results, result[w][1])
            /\ trace' = [trace EXCEPT ![job[w]].sent = @ + 1]
            /\ UNCHANGED panicked
  /\ wpc' = [wpc EXCEPT ![w] = IF resultsClosed THEN "panicked" ELSE "recv"]
  /\ UNCHANGED <<params, mpc, next, jobs, jobsClosed, resultsClosed, wg, job,
                 result, progress, wrpc, newEncoder, output, stdout, staging, log>>

(***************************************************************************)
(* writeResults                                                             *)
(***************************************************************************)
\* Mutant of WriterOpen: the creation failure is logged in quiet mode too
WriterOpenLoud ==
  /\ wrpc = "create"
  /\ IF cfg.update /\ cfg.hashesFile # ""
       THEN IF creatable
              THEN /\ staging' = [exists |-> TRUE, open |-> TRUE, entries |-> <<>>]
                   /\ newEncoder' = TRUE
                   /\ log' = log
              ELSE /\ log' = log \cup {LogEntry("create", 0)}
                   /\ UNCHANGED <<staging, newEncoder>>
       ELSE UNCHANGED <<staging, newEncoder, log>>
  /\ wrpc' = "drain"
  /\ UNCHANGED <<params, mpc, next, jobs, jobsClosed, results, resultsClosed,
                 wg, wpc, job, result, progress, output, stdout, panicked, trace>>

\* Mutant of WriterOpen: when the staging file cannot be created the writer
\* returns without draining and without signalling
WriterOpenGivesUp ==
  /\ wrpc = "create"
  /\ IF cfg.update /\ cfg.hashesFile # ""
       THEN IF creatable
              THEN /\ staging' = [exists |-> TRUE, open |-> TRUE, entries |-> <<>>]
                   /\ newEncoder' = TRUE
                   /\ log' = log
                   /\ wrpc' = "drain"
              ELSE /\ log' = IF cfg.quiet THEN log ELSE log \cup {LogEntry("create", 0)}
                   /\ wrpc' = "exited"
                   /\ UNCHANGED <<staging, newEncoder>>
       ELSE /\ wrpc' = "drain"
            /\ UNCHANGED <<staging, newEncoder, log>>
  /\ UNCHANGED <<params, mpc, next, jobs, jobsClosed, results, resultsClosed,
                 wg, wpc, job, result, progress, output, stdout, panicked, trace>>

\* Open .new file for successful hashes if update mode is enabled
WriterOpen ==
  /\ wrpc = "create"
  /\ IF cfg.update /\ cfg.hashesFile # ""
       THEN IF creatable
              THEN /\ staging' = [exists |-> TRUE, open |-> TRUE, entries |-> <<>>]
                   /\ newEncoder' = TRUE
                   /\ log' = log
              ELSE /\ log' = IF cfg.quiet THEN log ELSE log \cup {LogEntry("create", 0)}
                   /\ UNCHANGED <<staging, newEncoder>>
       ELSE UNCHANGED <<staging, newEncoder, log>>
  /\ wrpc' = "drain"
  /\ UNCHANGED <<params, mpc, next, jobs, jobsClosed, results, resultsClosed,
                 wg, wpc, job, result, progress, output, stdout, panicked, trace>>

\* Mutant of OutputSink: stdout is never suppressed
OutputSinkStdout(c) == "stdout"

\* Determine output writer: suppress stdout if quiet mode and hashes file
\* are both enabled
OutputSink(c) == IF c.quiet /\ c.hashesFile # "" THEN "discard" ELSE "stdout"

\* encoder.Encode(result) succeeds: a write to io.Discard always does
Encodes(c) == OutputSink(c) = "discard" \/ encodes.output

\* What one iteration of the writer's loop logs; staged: the Result is
\* encoded to the staging file too
EncodeLogs(staged) ==
  (IF ~Encodes(cfg) /\ ~cfg.quiet THEN {LogEntry("encode", 0)} ELSE {})
    \cup (IF staged /\ ~encodes.staging /\ ~cfg.quiet
            THEN {LogEntry("stage", 0)} ELSE {})

\* Mutant of WriterWrite: a staged hash is also recorded in the audit map
WriterWriteUpdatesMap ==
  /\ wrpc = "drain"
  /\ results # <<>>
  /\ LET r == Head(results)
         staged == newEncoder /\ r.exit_code = 0
     IN /\ output' = IF Encodes(cfg) THEN Append(output, r) ELSE output
        /\ stdout' = IF Encodes(cfg) /\ OutputSink(cfg) = "stdout"
                       THEN Append(stdout, r) ELSE stdout
        /\ log' = log \cup EncodeLogs(staged)
        /\ staging' = IF staged /\ encodes.staging
                        THEN [staging EXCEPT !.entries =
                                Append(@, AuditEntry(r.filename, r.hash))]
                        ELSE staging
        /\ auditMap' = IF staged /\ ~auditMap.isNil
                         THEN MapOf([k \in DOMAIN auditMap.m \cup {r.filename} |->
                                       IF k = r.filename THEN r.hash
                                                         ELSE auditMap.m[k]])
                         ELSE auditMap
  /\ results' = Tail(results)
  /\ UNCHANGED <<files, cfg, disk, shell, creatable, store, exit, loaded,
                 merged, prev, call, encodes, mpc, next, jobs, jobsClosed,
                 resultsClosed, wg, wpc, job, result, progress, wrpc,
                 newEncoder, panicked, trace>>

\* Mutant of WriterWrite: every result is staged, whatever its exit code
WriterWriteStageAll ==
  /\ wrpc = "drain"
  /\ results # <<>>
  /\ LET r == Head(results)
     IN /\ output' = IF Encodes(cfg) THEN Append(output, r) ELSE output
        /\ stdout' = IF Encodes(cfg) /\ OutputSink(cfg) = "stdout"
                       THEN Append(stdout, r) ELSE stdout
        /\ log' = log \cup EncodeLogs(newEncoder)
        /\ staging' = IF newEncoder /\ encodes.staging
                        THEN [staging EXCEPT !.entries =
                                Append(@, AuditEntry(r.filename, r.hash))]
                        ELSE staging
  /\ results' = Tail(results)
  /\ UNCHANGED <<params, mpc, next, jobs, jobsClosed, resultsClosed, wg, wpc,
                 job, result, progress, wrpc, newEncoder, panicked, trace>>

\* for result := range results: one iteration (encode to the output, then
\* to the staging file when the exit code is 0)
WriterWrite ==
  /\ wrpc = "drain"
  /\ results # <<>>
  /\ LET r == Head(results)
     IN /\ output' = IF Encodes(cfg) THEN Append(output, r) ELSE output
        /\ stdout' = IF Encodes(cfg) /\ OutputSink(cfg) = "stdout"
                       THEN Append(stdout, r) ELSE stdout
        /\ log' = log \cup EncodeLogs(newEncoder /\ r.exit_code = 0)
        /\ staging' = IF newEncoder /\ r.exit_code = 0 /\ encodes.staging
                        THEN [staging EXCEPT !.entries =
                                Append(@, AuditEntry(r.filename, r.hash))]
                        ELSE staging
  /\ results' = Tail(results)
  /\ UNCHANGED <<params, mpc, next, jobs, jobsClosed, resultsClosed, wg, wpc,
                 job, result, progress, wrpc, newEncoder, panicked, trace>>

\* Mutant of WriterClose: the writer stops as soon as the channel is empty
WriterCloseEarly ==
  /\ wrpc = "drain"
  /\ results = <<>>
  /\ staging' = [staging EXCEPT !.open = FALSE]
  /\ wrpc' = "signal"
  /\ UNCHANGED <<params, mpc, next, jobs, jobsClosed, results, resultsClosed,
                 wg, wpc, job, result, progress, newEncoder, output, stdout, log,
                 panicked, trace>>

\* the range loop ends (closed and drained); newFile.Close()
WriterClose ==
  /\ wrpc = "drain"
  /\ results = <<>>
  /\ resultsClosed
  /\ staging' = [staging EXCEPT !.open = FALSE]
  /\ wrpc' = "signal"
  /\ UNCHANGED <<params, mpc, next, jobs, jobsClosed, results, resultsClosed,
                 wg, wpc, job, result, progress, newEncoder, output, stdout, log,
                 panicked, trace>>

Next ==
  \/ StartWorkers
  \/ SendJob
  \/ CloseJobs
  \/ StartWriter
  \/ WaitWorkers
  \/ CloseResults
  \/ ReceiveDone
  \/ Finish
  \/ \E w \in Workers : WorkerReceive(w)
  \/ \E w \in Workers : WorkerExit(w)
  \/ \E w \in Workers : WorkerHash(w)
  \/ \E w \in Workers : WorkerCommand(w)
  \/ \E w \in Workers : UpdateProcessed(w)
  \/ \E w \in Workers : UpdateChanged(w)
  \/ \E w \in Workers : UpdateErrors(w)
  \/ \E w \in Workers : WorkerSend(w)
  \/ WriterOpen
  \/ WriterWrite
  \/ WriterClose

Spec == Init /\ [][Next]_vars
SpecProcessFile == InitProcessFile /\ [][Next]_vars

(***************************************************************************)
(* main: load the hashes file, process the files, merge the staging file    *)
(***************************************************************************)
\* The orders in which a range over a map with keys in S can visit them
Perms(S) == {o \in [1..Cardinality(S) -> S] : \A k \in S : \E i \in DOMAIN o : o[i] = k}

\* Mutant of FilesToProcess: the list is never filled from the audit map
FilesToProcessGiven(fs, am, order) == fs

\* If audit mode and no files specified, check all audit entries: range
\* over the map visits its keys in the order given
FilesToProcess(fs, am, order) ==
  LET InMap(k) == k \in DOMAIN am.m
  IN IF cfg.hashesFile # "" /\ fs = <<>> THEN SelectSeq(order, InMap) ELSE fs

\* main up to the call of processFiles
MainStart ==
  /\ mpc = "main"
  /\ IF files = <<>> /\ cfg.hashesFile = ""
       THEN /\ exit' = 1
            /\ mpc' = "exited"
            /\ UNCHANGED <<files, auditMap, trace, store, loaded>>
       ELSE \E canCreate \in IF store.exists THEN {TRUE} ELSE BOOLEAN,
               order \in Perms(Names) :
              LET r == loadAuditFile(cfg.hashesFile, store, canCreate)
              IN /\ loaded' = [called |-> TRUE, file |-> store,
                               canCreate |-> canCreate, args |-> files]
                 /\ store' = r.file
                 /\ IF r.exit
                      THEN /\ exit' = 1
                           /\ mpc' = "exited"
                           /\ UNCHANGED <<files, auditMap, trace>>
                      ELSE /\ auditMap' = r.map
                           /\ files' = FilesToProcess(files, r.map, order)
                           /\ trace' = [i \in 1..Len(files') |-> NoTrace]
                           /\ mpc' = "spawn"
                           /\ exit' = exit
  /\ UNCHANGED <<cfg, disk, shell, creatable, next, jobs, jobsClosed, results,
                 resultsClosed, wg, wpc, job, result, progress, wrpc,
                 newEncoder, output, stdout, staging, log, panicked, merged, prev, call,
                 encodes>>

\* main after processFiles: if cfg.update { mergeHashFiles(cfg.hashesFile) }
MergeStep ==
  /\ mpc = "returned"
  /\ exit = Running
  /\ IF cfg.update
       THEN \E canCreate \in BOOLEAN, createOK \in BOOLEAN,
               lost \in SUBSET Names, order \in Perms(Names) :
              LET r == mergeHashFiles(store, staging, canCreate, createOK,
                                      lost, order)
              IN /\ merged' = [called |-> TRUE, store |-> store,
                               staging |-> staging, canCreate |-> canCreate,
                               createOK |-> createOK, lost |-> lost,
                               outcome |-> r.outcome]
                 /\ store' = r.store
                 /\ staging' = r.staging
                 /\ exit' = IF r.exit THEN 1 ELSE 0
                 /\ log' = IF r.outcome = "createFailed"
                           THEN log \cup {LogEntry("mergeCreate", 0)}
                           ELSE IF r.outcome = "writeFailed"
                           THEN log \cup {LogEntry("mergeWrite", 0)}
                           ELSE log
       ELSE /\ exit' = 0
            /\ UNCHANGED <<merged, store, staging, log>>
  /\ mpc' = "exited"
  /\ UNCHANGED <<files, cfg, auditMap, disk, shell, creatable, next, jobs,
                 jobsClosed, results, resultsClosed, wg, wpc, job, result,
                 progress, wrpc, newEncoder, output, stdout, panicked, trace, loaded,
                 prev, call, encodes>>

NextMain == MainStart \/ Next \/ MergeStep
NextStore == MergeStep

\* The lines a hashes file or a staging file can hold
Lines == {AuditEntry("a", "h1"), AuditEntry("a", "h2"), AuditEntry("b", "h1"),
          Malformed}

\* Runs of main without -update: with and without a hashes file, the file
\* missing, unreadable, malformed or well formed.
InitMain ==
  /\ files \in SeqsUpTo(Names, MaxFiles)
  /\ cfg \in {c \in [command : {"cmd"}, hashesFile : {"", "hashes.jsonl"},
                     audit : BOOLEAN, update : {FALSE},
                     successCodes : {{}}, errorCodes : {{}, {1}},
                     filterOnCodes : BOOLEAN, workers : 1..MaxWorkers,
                     quiet : {FALSE}] :
                Parsed(c) /\ (c.audit => c.hashesFile # "")}
  /\ store \in IF cfg.hashesFile = "" THEN {NoFile}
               ELSE {NoFile, UnreadableFile, FileOf(<<Malformed>>),
                     FileOf(<<AuditEntry("a", "h1")>>),
                     FileOf(<<AuditEntry("a", "h2"), AuditEntry("b", "h1")>>)}
  /\ auditMap = NilMap
  /\ disk \in Disks({"h1", Unreadable})
  /\ shell \in Shells({Exit(0), Exit(1)})
  /\ creatable = TRUE
  /\ encodes = Reliable
  /\ Len(files) + cfg.workers <= MaxLoad
  /\ mpc = "main"
  /\ staging = NoStaging
  /\ loaded = NotLoaded
  /\ Fresh

\* Runs of main with -update: the staging file can or cannot be created, a
\* staging file of an earlier run may be left over.
InitUpdate ==
  /\ files \in SeqsUpTo(Names, MaxFiles)
  /\ cfg \in {c \in [command : {"cmd"}, hashesFile : {"hashes.jsonl"},
                     audit : BOOLEAN, update : {TRUE},
                     successCodes : {{}}, errorCodes : {{}, {1}},
                     filterOnCodes : BOOLEAN, workers : 1..MaxWorkers,
                     quiet : {FALSE}] : Parsed(c)}
  /\ store \in {NoFile, FileOf(<<AuditEntry("a", "h1")>>),
                FileOf(<<AuditEntry("a", "h2")>>)}
  /\ auditMap = NilMap
  /\ disk \in Disks({"h1"})
  /\ shell \in Shells({Exit(0), Exit(1)})
  /\ creatable \in BOOLEAN
  /\ encodes = Reliable
  /\ Len(files) + cfg.workers <= MaxLoad
  /\ mpc = "main"
  /\ staging \in {NoStaging,
                  [exists |-> TRUE, open |-> FALSE,
                   entries |-> <<AuditEntry("b", "h2")>>]}
  /\ loaded = NotLoaded
  /\ Fresh

\* mergeHashFiles called on any store file and any staging file of at most
\* MaxLines lines
InitStore ==
  /\ files = <<>>
  /\ cfg = [command |-> "cmd", hashesFile |-> "hashes.jsonl", audit |-> FALSE,
            update |-> TRUE, successCodes |-> {}, errorCodes |-> {},
            filterOnCodes |-> FALSE, workers |-> 1, quiet |-> FALSE]
  /\ store \in {NoFile, UnreadableFile} \cup {FileOf(es) : es \in SeqsUpTo(Lines, MaxLines)}
  /\ staging \in {NoStaging} \cup
       {[exists |-> TRUE, open |-> FALSE, entries |-> es] :
          es \in SeqsUpTo(Lines, MaxLines)}
  /\ auditMap = NilMap
  /\ disk \in Disks({"h1"})
  /\ shell \in Shells({Exit(0)})
  /\ creatable = TRUE
  /\ encodes = Reliable
  /\ mpc = "returned"
  /\ loaded = NotLoaded
  /\ Fresh

SpecMain == InitMain /\ [][NextMain]_vars
SpecUpdate == InitUpdate /\ [][NextMain]_vars
SpecStore == InitStore /\ [][NextStore]_vars

\* Runs of main with -update and a hashes file, with and without -quiet
InitQuiet ==
  /\ files \in SeqsUpTo(Names, MaxFiles)
  /\ cfg \in [command : {"cmd"}, hashesFile : {"hashes.jsonl"},
              audit : {FALSE}, update : {TRUE},
              successCodes : {{}}, errorCodes : {{}},
              filterOnCodes : {FALSE}, workers : 1..MaxWorkers,
              quiet : BOOLEAN]
  /\ store \in {NoFile, FileOf(<<AuditEntry("a", "h2")>>)}
  /\ auditMap = NilMap
  /\ disk \in Disks({"h1", Unreadable})
  /\ shell \in Shells({Exit(0), Exit(1)})
  /\ creatable = TRUE
  /\ encodes = Reliable
  /\ Len(files) + cfg.workers <= MaxLoad
  /\ mpc = "main"
  /\ staging = NoStaging
  /\ loaded = NotLoaded
  /\ Fresh

SpecQuiet == InitQuiet /\ [][NextMain]_vars

(***************************************************************************)
(* processFiles called again on the same input                              *)
(***************************************************************************)
\* A caller that calls processFiles again once it has returned: the same
\* files, the same audit map, the same file contents, any number of workers,
\* fresh channels, a fresh progress reporter and a fresh output.
Rerun ==
  /\ mpc = "returned"
  /\ Len(prev) + 1 < MaxRuns
  /\ prev' = Append(prev, trace)
  /\ \E n \in 1..MaxWorkers :
       /\ N + n <= MaxLoad
       /\ cfg' = [cfg EXCEPT !.workers = n]
       /\ wpc' = [w \in 1..n |-> "unstarted"]
       /\ job' = [w \in 1..n |-> 0]
       /\ result' = [w \in 1..n |-> <<>>]
  /\ mpc' = "spawn"
  /\ next' = 1
  /\ jobs' = <<>>
  /\ jobsClosed' = FALSE
  /\ results' = <<>>
  /\ resultsClosed' = FALSE
  /\ wg' = 0
  /\ progress' = [processed |-> 0, changed |-> 0, errors |-> 0]
  /\ wrpc' = "unstarted"
  /\ newEncoder' = FALSE
  /\ output' = <<>>
  /\ stdout' = <<>>
  /\ trace' = [i \in 1..N |-> NoTrace]
  /\ UNCHANGED <<files, auditMap, disk, shell, creatable, store, exit, loaded,
                 merged, staging, log, panicked, call, encodes>>

NextTwice == Next \/ Rerun

\* Calls of processFiles by a caller that repeats them: the audit map
\* records the current hash of file "a", an old one, or nothing
InitTwice ==
  /\ files \in SeqsUpTo(Names, MaxFiles)
  /\ cfg \in [command : {"cmd"}, hashesFile : {"hashes.jsonl"},
              audit : BOOLEAN, update : {FALSE},
              successCodes : {{}}, errorCodes : {{}},
              filterOnCodes : {FALSE}, workers : 1..MaxWorkers,
              quiet : {FALSE}]
  /\ auditMap \in {NilMap, MapOf("a" :> "h1"), MapOf("a" :> "h2")}
  /\ disk \in Disks({"h1", Unreadable})
  /\ shell \in Shells({Exit(0)})
  /\ creatable = TRUE
  /\ encodes = Reliable
  /\ Len(files) + cfg.workers <= MaxLoad
  /\ Start

SpecTwice == InitTwice /\ [][NextTwice]_vars

(***************************************************************************)
(* runCommand called on any template                                        *)
(***************************************************************************)
\* runCommand up to exec.Command("sh", "-c", command)
BuildStep ==
  /\ ~call.built
  /\ call' = [call EXCEPT !.command = BuildCommand(call.template, call.filename),
                          !.built = TRUE]
  /\ UNCHANGED <<files, cfg, auditMap, disk, shell, creatable, store, exit,
                 loaded, merged, prev, encodes, mpc, next, jobs, jobsClosed, results,
                 resultsClosed, wg, wpc, job, result, progress, wrpc,
                 newEncoder, output, stdout, staging, log, panicked, trace>>

NextCommand == BuildStep

\* runCommand called with any template of at most MaxTemplate words and
\* any file name
InitCommand ==
  /\ files \in {<<n>> : n \in Names}
  /\ cfg = [command |-> "cmd", hashesFile |-> "", audit |-> FALSE,
            update |-> FALSE, successCodes |-> {}, errorCodes |-> {},
            filterOnCodes |-> FALSE, workers |-> 1, quiet |-> FALSE]
  /\ auditMap = NilMap
  /\ disk \in Disks({"h1"})
  /\ shell \in Shells({Exit(0)})
  /\ creatable = TRUE
  /\ encodes = Reliable
  /\ mpc = "spawn"
  /\ staging = NoStaging
  /\ store = NoFile
  /\ loaded = NotLoaded
  /\ next = 1
  /\ jobs = <<>>
  /\ jobsClosed = FALSE
  /\ results = <<>>
  /\ resultsClosed = FALSE
  /\ wg = 0
  /\ wpc = [w \in Workers |-> "unstarted"]
  /\ job = [w \in Workers |-> 0]
  /\ result = [w \in Workers |-> <<>>]
  /\ progress = [processed |-> 0, changed |-> 0, errors |-> 0]
  /\ wrpc = "unstarted"
  /\ newEncoder = FALSE
  /\ output = <<>>
  /\ log = {}
  /\ panicked = FALSE
  /\ trace = [i \in 1..N |-> NoTrace]
  /\ exit = Running
  /\ merged = NotMerged
  /\ stdout = <<>>
  /\ prev = NoPrev
  /\ call \in [template : SeqsUpTo(Words, MaxTemplate), filename : {files[1]},
               command : {<<>>}, built : {FALSE}]

SpecCommand == InitCommand /\ [][NextCommand]_vars

(***************************************************************************)
(* processFiles under a scheduler that lets a runnable goroutine run        *)
(***************************************************************************)
\* Runs of processFiles in update mode with a filter: files that are kept,
\* dropped by the filter, changed or unreadable
InitLive ==
  /\ files \in SeqsUpTo(Names, MaxFiles)
  /\ cfg \in [command : {"cmd"}, hashesFile : {"hashes.jsonl"},
              audit : {FALSE}, update : {TRUE},
              successCodes : {{0}}, errorCodes : {{}},
              filterOnCodes : {TRUE}, workers : 1..MaxWorkers,
              quiet : {FALSE}]
  /\ auditMap = MapOf("a" :> "h2")
  /\ disk \in Disks({"h1", Unreadable})
  /\ shell \in Shells({Exit(0), Exit(1)})
  /\ creatable = TRUE
  /\ encodes = Reliable
  /\ Len(files) + cfg.workers <= MaxLoad
  /\ Start

\* Every hash and every command returns, and the Go scheduler runs a
\* goroutine that can take a step: the program does not stop while a step
\* is possible
SpecLive == InitLive /\ [][Next]_vars /\ WF_vars(Next)

(***************************************************************************)
(* processFiles in an environment where things fail                         *)
(***************************************************************************)
\* Calls of processFiles with and without -quiet, in update mode or without
\* a hashes file: a file that cannot be hashed, a command that cannot be
\* started or is killed, a staging file that cannot be created, an output
\* sink and a staging file on which Encode fails.  A part of the
\* environment that the run never consults is not varied.
InitFaults ==
  /\ files \in SeqsUpTo(Names, MaxFiles)
  /\ cfg \in {c \in [command : {"cmd"}, hashesFile : {"", "hashes.jsonl"},
                     audit : {FALSE}, update : BOOLEAN,
                     successCodes : {{0}}, errorCodes : {{}},
                     filterOnCodes : {TRUE}, workers : 1..MaxWorkers,
                     quiet : BOOLEAN] : c.update = (c.hashesFile # "")}
  /\ auditMap = IF cfg.hashesFile = "" THEN NilMap ELSE MapOf("b" :> "h2")
  /\ disk \in Disks({"h1", Unreadable})
  /\ shell \in Shells({Signalled, SpawnFailed})
  /\ creatable \in IF cfg.update THEN BOOLEAN ELSE {TRUE}
  /\ encodes \in [output : IF OutputSink(cfg) = "discard" THEN {TRUE} ELSE BOOLEAN,
                  staging : IF cfg.update /\ creatable THEN BOOLEAN ELSE {TRUE}]
  /\ Len(files) + cfg.workers <= MaxLoad
  /\ Start

SpecFaults == InitFaults /\ [][Next]_vars

\* A staging file left over by an earlier run that was not merged
Leftover == [exists |-> TRUE, open |-> FALSE,
             entries |-> <<AuditEntry("b", "h2")>>]

\* Calls of processFiles in update mode when os.Create of the staging file
\* fails, with and without -quiet, with and without a leftover staging file
InitUncreatable ==
  /\ files \in SeqsUpTo(Names, MaxFiles)
  /\ cfg \in [command : {"cmd"}, hashesFile : {"hashes.jsonl"},
              audit : {FALSE}, update : {TRUE},
              successCodes : {{}}, errorCodes : {{}},
              filterOnCodes : {FALSE}, workers : 1..MaxWorkers,
              quiet : BOOLEAN]
  /\ auditMap = MapOf("a" :> "h2")
  /\ disk \in Disks({"h1", Unreadable})
  /\ shell \in Shells({Exit(0)})
  /\ creatable = FALSE
  /\ encodes = Reliable
  /\ Len(files) + cfg.workers <= MaxLoad
  /\ mpc = "spawn"
  /\ staging \in {NoStaging, Leftover}
  /\ store = FileOf(<<AuditEntry("a", "h2")>>)
  /\ loaded = NotLoaded
  /\ Fresh

\* The scheduler runs a goroutine that can take a step
SpecUncreatable == InitUncreatable /\ [][Next]_vars /\ WF_vars(Next)

TypeOK == mpc \in {"main", "spawn", "send", "startWriter", "wait",
                   "closeResults", "waitDone", "finish", "returned", "exited"}

(***************************************************************************)
(* Helpers of the properties                                                *)
(***************************************************************************)
Range(s) == {s[i] : i \in DOMAIN s}
BagOfSeq(s) == [x \in Range(s) |-> Cardinality({i \in DOMAIN s : s[i] = x})]
Filenames(s) == [i \in DOMAIN s |-> s[i].filename]

Entries == 1..N
NoHashFailure == \A i \in Entries : disk[files[i]] # Unreadable

\* The file of entry i has a recorded hash and its content hash differs
FileChanged(i) ==
  /\ ~auditMap.isNil
  /\ HasKey(auditMap, files[i])
  /\ disk[files[i]] # auditMap.m[files[i]]

\* processFile has returned for entry i and its hash was computed
Hashed(i) == trace[i].done /\ trace[i].hashed = 1

\* The command was run for entry i and the exit-code filter rejects its code
FilterDiscards(i) ==
  /\ trace[i].ran > 0
  /\ cfg.filterOnCodes
  /\ \/ trace[i].code \notin (cfg.successCodes \cup cfg.errorCodes)
     \/ trace[i].code = -1 /\ -1 \notin cfg.errorCodes

\* The Results that workers have sent, as a bag
SentBag ==
  LET S == {i \in Entries : trace[i].sent > 0}
  IN [r \in {trace[i].res[1] : i \in S} |->
        Cardinality({i \in S : trace[i].res[1] = r})]

\* Every Result that exists: written, buffered, or held by a worker
AllResults ==
  Range(output) \cup Range(results)
    \cup {result[w][1] : w \in {v \in Workers : result[v] # <<>>}}

(***************************************************************************)
(* C1: with exit-code filtering disabled and every file readable, a run of  *)
(* processFiles that has returned has written exactly N records, one for    *)
(* each entry of the input list, whatever the number of workers and the     *)
(* interleaving.                                                            *)
(***************************************************************************)
C1_ExactlyNResults ==
  (mpc = "returned" /\ ~cfg.filterOnCodes /\ NoHashFailure)
    => /\ Len(output) = N
       /\ BagOfSeq(Filenames(output)) = BagOfSeq(files)

C1_Witness ==
  /\ mpc = "returned"
  /\ ~cfg.filterOnCodes
  /\ NoHashFailure
  /\ N = 2
  /\ cfg.workers = 1
  /\ Len(output) = 2

(***************************************************************************)
(* C2: every entry of the input list is dequeued at most once, is in the    *)
(* hands of at most one worker, and is sent as a Result at most once; when  *)
(* the run has returned every entry was dequeued exactly once and yielded   *)
(* no Result if its hashing failed or the exit-code filter discarded it,    *)
(* and exactly one Result otherwise.                                        *)
(***************************************************************************)
C2_OneResultPerEntry ==
  \A i \in Entries :
    /\ trace[i].taken <= 1
    /\ trace[i].sent <= 1
    /\ Cardinality({w \in Workers : job[w] = i
                      /\ wpc[w] \notin {"unstarted", "recv", "exited"}}) <= 1
    /\ mpc = "returned" =>
         /\ trace[i].taken = 1
         /\ trace[i].sent =
              IF disk[files[i]] = Unreadable \/ FilterDiscards(i) THEN 0 ELSE 1

C2_Witness ==
  /\ mpc = "returned"
  /\ N = 2
  /\ cfg.workers = 2
  /\ \E i, j \in Entries :
       /\ FilterDiscards(i) /\ trace[i].sent = 0
       /\ trace[j].sent = 1

(***************************************************************************)
(* C3: the Results sent by the workers are exactly those buffered in the    *)
(* result channel plus those written to the output, each counted once;      *)
(* when processFiles returns the channel is empty, so every Result sent     *)
(* has been written exactly once.                                           *)
(***************************************************************************)
C3_SentWrittenOnce ==
  /\ BagOfSeq(output) (+) BagOfSeq(results) = SentBag
  /\ mpc \in {"finish", "returned"} => results = <<>>

C3_Witness ==
  /\ mpc = "returned"
  /\ cfg.workers = 2
  /\ Len(output) = 2
  /\ output[1] # output[2]

C5_AuditRunsOnUnknown ==
  \A i \in Entries :
    (Hashed(i) /\ cfg.audit /\ cfg.command # "")
      => (trace[i].ran = 1 <=>
            (FileChanged(i) \/ ~HasKey(auditMap, files[i])))

(***************************************************************************)
(* C6: every Result has audited = (an audit map was supplied and contains   *)
(* the file name) and changed = (audited and the computed hash differs      *)
(* from the recorded hash), the hash being the one hashFile computed; so    *)
(* no Result has changed without audited.                                   *)
(***************************************************************************)
C6_AuditFlags ==
  \A r \in AllResults :
    /\ r.hash = disk[r.filename]
    /\ r.audited = (~auditMap.isNil /\ HasKey(auditMap, r.filename))
    /\ r.changed = (r.audited /\ r.hash # auditMap.m[r.filename])
    /\ r.changed => r.audited

C6_Witness ==
  /\ \E r \in Range(output) : r.audited /\ r.changed
  /\ mpc = "returned"

(***************************************************************************)
(* C7: when the command was not run for a hashed file, processFile returns  *)
(* a Result with exit_code 0 whatever the filter flag and the code sets     *)
(* are, and that Result is in the output when the run has returned.         *)
(***************************************************************************)
C7_SkippedIsKept ==
  \A i \in Entries :
    (Hashed(i) /\ trace[i].ran = 0)
      => /\ trace[i].res # <<>>
         /\ trace[i].res[1].exit_code = 0
         /\ mpc = "returned" => trace[i].res[1] \in Range(output)

C7_Witness ==
  \E i \in Entries :
    /\ mpc = "returned"
    /\ Hashed(i)
    /\ trace[i].ran = 0
    /\ cfg.command # ""
    /\ cfg.filterOnCodes
    /\ 0 \notin (cfg.successCodes \cup cfg.errorCodes)
    /\ output # <<>>

(***************************************************************************)
(* C8: with exit-code filtering disabled, processFile returns a Result for  *)
(* every hashed file, carrying the command's exit code when it ran,         *)
(* whatever that code is.                                                   *)
(***************************************************************************)
C8_NoFilterKeepsAll ==
  ~cfg.filterOnCodes =>
    \A i \in Entries :
      Hashed(i) =>
        /\ trace[i].res # <<>>
        /\ trace[i].ran = 1 => trace[i].res[1].exit_code = trace[i].code

C8_Witness ==
  \E i \in Entries :
    /\ ~cfg.filterOnCodes
    /\ Hashed(i)
    /\ trace[i].ran = 1
    /\ trace[i].code = -1
    /\ cfg.successCodes = {0}
    /\ trace[i].res # <<>>

(***************************************************************************)
(* C9 as stated: with filtering enabled, a Result whose command ran is      *)
(* kept if and only if its exit code is in the success set or in the error  *)
(* set, -1 included.                                                        *)
(***************************************************************************)
C9_KeptIffInEitherSet ==
  \A i \in Entries :
    (cfg.filterOnCodes /\ trace[i].done /\ trace[i].ran = 1)
      => (trace[i].res # <<>> <=>
            trace[i].code \in (cfg.successCodes \cup cfg.errorCodes))

(***************************************************************************)
(* C9 amended: with filtering enabled, a Result whose command ran is kept   *)
(* if and only if its exit code is in the success set or in the error set,  *)
(* except that the code -1 is kept if and only if it is in the error set.   *)
(***************************************************************************)
C9_KeptIffListed ==
  \A i \in Entries :
    (cfg.filterOnCodes /\ trace[i].done /\ trace[i].ran = 1)
      => (trace[i].res # <<>> <=>
            IF trace[i].code = -1
              THEN -1 \in cfg.errorCodes
              ELSE trace[i].code \in (cfg.successCodes \cup cfg.errorCodes))

C9_Witness ==
  \E i \in Entries :
    /\ cfg.filterOnCodes
    /\ trace[i].done
    /\ trace[i].ran = 1
    /\ trace[i].code = -1
    /\ -1 \in cfg.successCodes
    /\ -1 \notin cfg.errorCodes
    /\ trace[i].res = <<>>

(***************************************************************************)
(* C10: with filtering enabled, a Result whose command returned -1 is       *)
(* discarded unless -1 is in the error set, and the hint naming the file    *)
(* is logged exactly when it is discarded for that reason and quiet mode    *)
(* is off.                                                                  *)
(***************************************************************************)
C10_MinusOneHint ==
  \A i \in Entries :
    /\ (cfg.filterOnCodes /\ trace[i].done /\ trace[i].ran = 1
          /\ trace[i].code = -1)
         => /\ trace[i].res = <<>> <=> -1 \notin cfg.errorCodes
            /\ LogEntry("hint", i) \in log
                 <=> (-1 \notin cfg.errorCodes /\ ~cfg.quiet)
    /\ LogEntry("hint", i) \in log
         => (trace[i].code = -1 /\ cfg.filterOnCodes /\ trace[i].res = <<>>)

C10_Witness ==
  \E i \in Entries :
    /\ trace[i].done
    /\ trace[i].code = -1
    /\ -1 \in cfg.successCodes
    /\ LogEntry("hint", i) \in log
    /\ LogEntry("hint", i).file = "a"

(***************************************************************************)
(* The staging file of update mode                                          *)
(***************************************************************************)
ZeroExit(r) == r.exit_code = 0
\* The staging records of the results of out whose exit code is 0
StagedOf(out) ==
  LET zero == SelectSeq(out, ZeroExit)
  IN [i \in 1..Len(zero) |-> AuditEntry(zero[i].filename, zero[i].hash)]

\* C11: in update mode, once the writer has created the staging file and
\* until the merge, the staging file holds, in the order of the output, one
\* {filename, hash} record for each result written to the output with exit
\* code 0 and no other record, and each record carries the hash of the file
\* as computed in this run.
C11_StagedIffWrittenZero ==
  (cfg.update /\ newEncoder /\ mpc # "exited") =>
    /\ staging.exists
    /\ staging.entries = StagedOf(output)
    /\ \A k \in DOMAIN staging.entries :
         staging.entries[k].hash = hashFile(staging.entries[k].filename)

\* A finished update run that wrote two results, of which only one has exit
\* code 0 and is staged
C11_Witness ==
  /\ cfg.update /\ newEncoder /\ mpc = "returned"
  /\ Len(output) = 2
  /\ \E k \in DOMAIN output : output[k].exit_code # 0
  /\ Len(staging.entries) = 1

\* C12: in update mode every record of the staging file belongs to a file
\* on which the command was run in this run and exited with code 0.
C12_PersistedOnlyIfRan ==
  (cfg.update /\ newEncoder /\ mpc # "exited") =>
    \A k \in DOMAIN staging.entries :
      \E i \in 1..N : /\ files[i] = staging.entries[k].filename
                      /\ trace[i].ran = 1
                      /\ trace[i].code = 0

(***************************************************************************)
(* mergeHashFiles                                                           *)
(***************************************************************************)
\* The filename-to-hash mapping of a file; a missing file holds none
MapOfFile(f) == MapOfEntries(IF f.exists THEN f.entries ELSE <<>>)
SameMap(f, g) == DOMAIN f = DOMAIN g /\ \A k \in DOMAIN f : f[k] = g[k]

\* mergeHashFiles has been called and the process has ended
MergeRan == merged.called /\ mpc = "exited"
\* The store file it was called on can be loaded
StoreLoads ==
  /\ merged.store.readable
  /\ WellFormed(merged.store.entries)
  /\ merged.store.exists \/ merged.canCreate
\* The staging file it was called on exists and can be loaded
StagingLoads == merged.staging.exists /\ WellFormed(merged.staging.entries)
\* The store file can be created and every entry can be written
WriteOK ==
  /\ merged.createOK
  /\ merged.lost \cap (DOMAIN MapOfFile(merged.store)
                         \cup DOMAIN MapOfFile(merged.staging)) = {}

\* C13: when an existing store with map E and a non-empty staging file with
\* map S are merged and the merged store is written, the store afterwards
\* maps every file name of S to its staging hash, every file name of E not
\* in S to its old hash, holds no other file name, and has one line per
\* file name of E and S.
C13_RightBiasedUnion ==
  (/\ MergeRan /\ merged.store.exists /\ StoreLoads
   /\ StagingLoads /\ merged.staging.entries # <<>> /\ WriteOK) =>
    LET E == MapOfFile(merged.store)
        S == MapOfFile(merged.staging)
        M == MapOfFile(store)
    IN /\ store.exists /\ WellFormed(store.entries)
       /\ DOMAIN M = DOMAIN E \cup DOMAIN S
       /\ \A k \in DOMAIN S : M[k] = S[k]
       /\ \A k \in DOMAIN E \ DOMAIN S : M[k] = E[k]
       /\ Len(store.entries) = Cardinality(DOMAIN E \cup DOMAIN S)

\* A merge in which the staging file overwrites the hash of one file and
\* another file of the store survives
C13_Witness ==
  /\ MergeRan /\ StoreLoads /\ StagingLoads /\ WriteOK
  /\ merged.store.entries = <<AuditEntry("a", "h1"), AuditEntry("b", "h1")>>
  /\ merged.staging.entries = <<AuditEntry("a", "h2")>>
  /\ Len(store.entries) = 2

\* C14: without a staging file mergeHashFiles changes nothing: the store
\* file is as it was, a missing store file is not created, and no staging
\* file appears.
C14_NoStagingNoOp ==
  (MergeRan /\ ~merged.staging.exists) =>
    /\ store = merged.store
    /\ ~staging.exists
    /\ exit = 0

\* mergeHashFiles was called with neither a staging file nor a store file
C14_Witness ==
  /\ MergeRan /\ ~merged.staging.exists /\ ~merged.store.exists
  /\ ~store.exists

\* C15: when the staging file exists and is empty (and the store can be
\* loaded and written), the staging file is deleted and the store's mapping
\* is the one it had before the call.
C15_EmptyStagingKeepsMap ==
  (/\ MergeRan /\ merged.staging.exists /\ merged.staging.entries = <<>>
   /\ StoreLoads /\ WriteOK) =>
    /\ ~staging.exists
    /\ SameMap(MapOfFile(store), MapOfFile(merged.store))

\* An empty staging file merged into a store with two entries
C15_Witness ==
  /\ MergeRan /\ merged.staging.exists /\ merged.staging.entries = <<>>
  /\ StoreLoads /\ WriteOK
  /\ Len(merged.store.entries) = 2
  /\ DOMAIN MapOfFile(store) = {"a", "b"}

\* C16: when the store file does not exist and the staging file is not
\* empty (and the store can be created and written), the store file exists
\* after the merge and its mapping is exactly the staging mapping.
C16_MissingStoreIsEmpty ==
  (/\ MergeRan /\ ~merged.store.exists /\ merged.canCreate
   /\ StagingLoads /\ merged.staging.entries # <<>> /\ WriteOK) =>
    /\ store.exists
    /\ SameMap(MapOfFile(store), MapOfFile(merged.staging))

\* A staging file with two file names merged into a missing store
C16_Witness ==
  /\ MergeRan /\ ~merged.store.exists /\ merged.canCreate /\ WriteOK
  /\ merged.staging.entries = <<AuditEntry("a", "h2"), AuditEntry("b", "h1")>>
  /\ store.exists /\ Len(store.entries) = 2

\* C17: the staging file is gone after mergeHashFiles if and only if the
\* merged store was written successfully: both files loaded, the store file
\* was created and every entry was written.
C17_RemovedIffMerged ==
  (MergeRan /\ merged.staging.exists) =>
    (~staging.exists <=> (StoreLoads /\ StagingLoads /\ WriteOK))

(***************************************************************************)
(* loadAuditFile                                                            *)
(***************************************************************************)
\* C18: a run without a hashes file path gets the nil map from
\* loadAuditFile, which is not the empty map a run with a path gets, and
\* with the nil map no Result is audited or changed and the changed counter
\* stays 0.
C18_NoPathNoAudit ==
  /\ NilMap # MapOf(<<>>)
  /\ (loaded.called /\ cfg.hashesFile = "") =>
       /\ exit # 1
       /\ auditMap = NilMap
       /\ store = loaded.file
       /\ \A r \in AllResults : ~r.audited /\ ~r.changed
       /\ \A i \in Entries : trace[i].res # <<>> =>
            ~trace[i].res[1].audited /\ ~trace[i].res[1].changed
       /\ progress.changed = 0
  /\ (loaded.called /\ cfg.hashesFile # "" /\ exit # 1) => ~auditMap.isNil

\* A finished run without a hashes file that wrote two results
C18_Witness ==
  /\ loaded.called /\ cfg.hashesFile = ""
  /\ mpc = "returned"
  /\ Len(output) = 2

HashFails(i) == hashFile(files[i]) = Unreadable

\* C20: an entry whose file cannot be hashed gets no Result, the command is
\* not run on it and nothing is sent or written for it; a run with such
\* entries still returns, having processed every entry and written the
\* Result of every entry that has one, and its errors counter is the number
\* of entries that cannot be hashed plus the number the filter discarded.
C20_HashFailureDropsFile ==
  /\ \A i \in Entries : (HashFails(i) /\ trace[i].done) =>
       /\ trace[i].res = <<>>
       /\ trace[i].ran = 0
       /\ trace[i].sent = 0
  /\ \A k \in DOMAIN output : hashFile(output[k].filename) # Unreadable
  /\ ~panicked
  /\ mpc = "returned" =>
       /\ \A i \in Entries :
            /\ trace[i].done
            /\ trace[i].res # <<>> => trace[i].res[1] \in Range(output)
       /\ progress.processed = N
       /\ progress.errors = Cardinality({i \in Entries : HashFails(i)})
                              + Cardinality({i \in Entries : FilterDiscards(i)})

\* A finished run on an unreadable file and a readable one: one error
\* counted, the readable file's Result written
C20_Witness ==
  /\ mpc = "returned"
  /\ N = 2
  /\ \E i \in Entries : HashFails(i)
  /\ \E i \in Entries : ~HashFails(i)
  /\ progress.errors = 1
  /\ Len(output) = 1

(***************************************************************************)
(* Repeated runs                                                            *)
(***************************************************************************)
\* The audit map records the hash that the file of entry i has now
RecordsCurrentHash(i) ==
  /\ ~auditMap.isNil
  /\ HasKey(auditMap, files[i])
  /\ auditMap.m[files[i]] = hashFile(files[i])

\* C21: when processFiles is called again on the same files, file contents
\* and audit map, every entry that has been processed in the later call was
\* hashed or not as in each earlier call, has a Result exactly when it had
\* one, and that Result carries the same hash and the same audited and
\* changed flags; changed is false in both when the map records the file's
\* current hash.  The calls may use different numbers of workers.
C21_RerunSameFlags ==
  \A k \in DOMAIN prev : \A i \in Entries :
    trace[i].done =>
      LET a == prev[k][i]
          b == trace[i]
      IN /\ a.hashed = b.hashed
         /\ (a.res = <<>>) = (b.res = <<>>)
         /\ b.res # <<>> =>
              /\ a.res[1].hash = b.res[1].hash
              /\ a.res[1].audited = b.res[1].audited
              /\ a.res[1].changed = b.res[1].changed
              /\ RecordsCurrentHash(i) =>
                   ~a.res[1].changed /\ ~b.res[1].changed

\* A second call on two files has returned; one of them is recorded with
\* its current hash and one with an old hash or not at all
C21_Witness ==
  /\ Len(prev) = 1
  /\ mpc = "returned"
  /\ N = 2
  /\ \E i \in Entries : RecordsCurrentHash(i) /\ trace[i].res # <<>>
  /\ \E i \in Entries : ~RecordsCurrentHash(i) /\ trace[i].res # <<>>

(***************************************************************************)
(* Quiet mode with a hashes file                                            *)
(***************************************************************************)
\* C22: in a run with -quiet and a hashes file nothing ever reaches
\* standard output, while the writer still encodes every Result: at the
\* return of processFiles one record per entry that has a Result was
\* encoded, in update mode the staging file holds the records of those with
\* exit code 0, and after a merge that could be written the staging file is
\* gone and the store maps each staged file name to its staged hash.
\* Without -quiet every encoded record reaches standard output.
C22_QuietDiscardsStdout ==
  /\ (cfg.quiet /\ cfg.hashesFile # "") =>
       /\ stdout = <<>>
       /\ mpc = "returned" =>
            Len(output) = Cardinality({i \in Entries : trace[i].res # <<>>})
       /\ (cfg.update /\ newEncoder /\ mpc # "exited") =>
            staging.entries = StagedOf(output)
       /\ (MergeRan /\ StoreLoads /\ StagingLoads /\ WriteOK) =>
            /\ ~staging.exists
            /\ \A k \in DOMAIN merged.staging.entries :
                 LET e == merged.staging.entries[k]
                 IN /\ e.filename \in DOMAIN MapOfFile(store)
                    /\ MapOfFile(store)[e.filename] = e.hash
  /\ ~(cfg.quiet /\ cfg.hashesFile # "") => stdout = output

\* A quiet update run that encoded two results, staged at least one and
\* merged it into the store
C22_Witness ==
  /\ cfg.quiet /\ cfg.update
  /\ MergeRan /\ StoreLoads /\ StagingLoads /\ WriteOK
  /\ Len(output) = 2
  /\ merged.staging.entries # <<>>
  /\ store.exists /\ store.entries # <<>>

(***************************************************************************)
(* runCommand                                                               *)
(***************************************************************************)
\* The position in the built command of word i of template t, when every
\* placeholder before it has become the three parts of a quoted file name
Shifted(t, i) ==
  i + 2 * Cardinality({j \in 1..(i - 1) : t[j] = Placeholder})

\* C23: the command line built from a template: with a placeholder in the
\* template every occurrence has become the quoted file name, every other
\* word is kept in place and nothing is appended; without one the template
\* is kept unchanged when it is a standalone verb or starts with a
\* standalone verb and a blank, and otherwise gets a blank and the quoted
\* file name appended.
C23_CommandLine ==
  call.built =>
    LET t == call.template
        c == call.command
        q == Quoted(call.filename)
        n == Cardinality({j \in DOMAIN t : t[j] = Placeholder})
    IN IF n > 0
         THEN /\ Len(c) = Len(t) + 2 * n
              /\ \A i \in DOMAIN t :
                   IF t[i] = Placeholder
                     THEN SubSeq(c, Shifted(t, i), Shifted(t, i) + 2) = q
                     ELSE c[Shifted(t, i)] = t[i]
       ELSE IF \/ Len(t) = 1 /\ t[1] \in {"exit", "true", "false"}
               \/ Len(t) >= 2 /\ t[1] \in {"exit", "true", "false"} /\ t[2] = " "
         THEN c = t
       ELSE c = t \o <<" ">> \o q

\* A template with two placeholders has been built
C23_Witness ==
  /\ call.built
  /\ call.template = <<Placeholder, " ", Placeholder>>
  /\ Len(call.command) = 7

\* C24 as stated: the command's exit code is returned as it is (0 on
\* success), -1 is returned exactly when the command was killed by a signal
\* or could not be spawned, and whenever -1 is returned and quiet mode is
\* off a message about the file is logged.
C24_MinusOneAlwaysLogged ==
  \A i \in Entries : trace[i].ran = 1 =>
    LET o == shell[files[i]]
    IN /\ o.kind = "exit" => trace[i].code = o.code /\ trace[i].code # -1
       /\ o.kind \in {"signal", "spawn"} => trace[i].code = -1
       /\ (trace[i].code = -1 /\ ~cfg.quiet) =>
            \E e \in log : e.entry = i /\ e.kind \in {"run", "hint"}

\* C24, amended: the command's exit code is returned as it is (0 on
\* success, never -1), -1 is returned exactly when the command was killed
\* by a signal or could not be spawned, and runCommand logs a message
\* exactly when the command could not be spawned and quiet mode is off: a
\* command killed by a signal returns -1 with no message from runCommand.
C24_ExitCodeOfOutcome ==
  \A i \in Entries : trace[i].ran = 1 =>
    LET o == shell[files[i]]
    IN /\ o.kind = "exit" =>
            trace[i].code = o.code /\ trace[i].code \in 0..255
       /\ o.kind \in {"signal", "spawn"} => trace[i].code = -1
       /\ LogEntry("run", i) \in log <=> (o.kind = "spawn" /\ ~cfg.quiet)

\* A command killed by a signal: -1 is returned and kept as the exit code
\* of the Result, quiet mode is off and nothing is logged
C24_Witness ==
  /\ trace[1].ran = 1
  /\ shell[files[1]].kind = "signal"
  /\ ~cfg.quiet
  /\ trace[1].res # <<>> /\ trace[1].res[1].exit_code = -1
  /\ log = {}

(***************************************************************************)
(* The phases of processFiles                                               *)
(***************************************************************************)
\* Idle: nothing is started.  Dispatching: the workers run, the producer
\* enqueues and closes, the writer is started, the coordinator waits for
\* the workers.  Draining: the workers have joined; the results channel is
\* closed and the coordinator waits for the writer.  Finalizing: the final
\* counters.  Done: processFiles has returned.
PhaseRank ==
  CASE mpc = "spawn" -> 0
    [] mpc \in {"send", "startWriter", "wait"} -> 1
    [] mpc \in {"closeResults", "waitDone"} -> 2
    [] mpc = "finish" -> 3
    [] mpc = "returned" -> 4

\* C25: a run of processFiles starts Idle, never goes back to an earlier
\* phase and never skips one, and, every hash and command returning and a
\* runnable goroutine being run, eventually returns, for every list of
\* files, the empty one included, and every number of workers.
C25_PhasesThenReturn ==
  /\ PhaseRank = 0
  /\ [][PhaseRank' \in {PhaseRank, PhaseRank + 1}]_vars
  /\ <>(mpc = "returned")

\* A run with two files and two workers has returned
C25_Witness ==
  /\ mpc = "returned"
  /\ N = 2
  /\ cfg.workers = 2
  /\ progress.processed = 2

(***************************************************************************)
(* Teardown                                                                 *)
(***************************************************************************)
\* C26: the results channel is closed only when every worker has exited
\* and no worker ever sends on the closed channel; the writer signals only
\* when the channel is closed and drained and the staging file is closed;
\* processFiles is past the signal only when the writer has ended; and
\* mergeHashFiles is called only then, on a staging file that is closed.
C26_TeardownOrder ==
  /\ ~panicked
  /\ resultsClosed => \A w \in Workers : wpc[w] = "exited"
  /\ wrpc \in {"signal", "exited"} =>
       resultsClosed /\ results = <<>> /\ ~staging.open
  /\ mpc \in {"finish", "returned"} => wrpc = "exited"
  /\ merged.called =>
       wrpc = "exited" /\ ~merged.staging.open /\ mpc = "exited"

\* The merge was called on a staging file written by two workers' results
C26_Witness ==
  /\ merged.called
  /\ merged.staging.exists
  /\ Len(merged.staging.entries) = 2
  /\ cfg.workers = 2

(***************************************************************************)
(* Counters and channels                                                    *)
(***************************************************************************)
\* The entries for which progress.Update has been called
Updated ==
  {i \in Entries : /\ trace[i].done
                   /\ ~\E w \in Workers : job[w] = i /\ wpc[w] = "update"}

\* C27: the processed counter always equals the number of Update calls
\* made, one per entry a worker took; when processFiles reads the counters
\* for the final report, and ever after, every worker has exited and the
\* processed counter equals the number of input files.
C27_ProcessedCountsUpdates ==
  /\ progress.processed = Cardinality(Updated)
  /\ mpc \in {"finish", "returned"} =>
       /\ \A w \in Workers : wpc[w] = "exited"
       /\ progress.processed = N

\* The final report of a run of two workers on two files, one of which
\* could not be hashed
C27_Witness ==
  /\ mpc = "finish"
  /\ N = 2
  /\ cfg.workers = 2
  /\ progress.processed = 2
  /\ progress.errors = 1

\* C28: a send never blocks: while the producer is in its loop it can
\* enqueue the next job or close the queue, a worker that holds a Result
\* can send it, neither channel ever buffers more than N entries, and the
\* writer is started only after every job is enqueued and the queue closed.
C28_SendsNeverBlock ==
  /\ mpc = "send" => ENABLED (SendJob \/ CloseJobs)
  /\ \A w \in Workers : wpc[w] = "send" => ENABLED WorkerSend(w)
  /\ Len(jobs) <= N
  /\ Len(results) <= N
  /\ wrpc # "unstarted" => next > N /\ jobsClosed

\* Both Results of a run on two files are buffered before the writer is
\* started
C28_Witness ==
  /\ N = 2
  /\ Len(results) = 2
  /\ wrpc = "unstarted"

(***************************************************************************)
(* The steps of one file                                                    *)
(***************************************************************************)
\* The moves of a worker: take an entry, hash it and look it up, run the
\* command and classify, update the counters, send
WorkerOrder ==
  {<<"unstarted", "recv">>, <<"recv", "hash">>, <<"recv", "exited">>,
   <<"hash", "command">>, <<"hash", "update">>, <<"command", "update">>,
   <<"update", "updateChanged">>, <<"update", "updateErrors">>,
   <<"update", "send">>, <<"updateChanged", "send">>,
   <<"updateErrors", "recv">>, <<"send", "recv">>}

\* C29: a worker moves through hash and audit lookup, command and
\* classification, counters, send, in this order.  A worker about to run
\* the command holds the Result with the file's hash and audit flags; the
\* command has run only for entries that were hashed, never for a file
\* whose hashing failed; a worker updating the counters has the outcome of
\* processFile and has not sent; a Result is sent only after the counters
\* were updated for its entry.
C29_StepsInOrder ==
  /\ [](/\ \A w \in Workers : wpc[w] = "command" =>
             /\ trace[job[w]].hashed = 1
             /\ ~HashFails(job[w])
             /\ result[w] = <<AuditCheck(files[job[w]], hashFile(files[job[w]]))>>
        /\ \A i \in Entries :
             /\ trace[i].ran > 0 => trace[i].hashed = 1 /\ ~HashFails(i)
             /\ HashFails(i) => trace[i].ran = 0 /\ trace[i].hashed = 0
             /\ trace[i].sent > 0 => i \in Updated
        /\ \A w \in Workers :
             wpc[w] \in {"update", "updateChanged", "updateErrors", "send"} =>
               trace[job[w]].done /\ trace[job[w]].sent = 0
        /\ \A w \in Workers : wpc[w] = "send" => job[w] \in Updated)
  /\ [][\A w \in Workers :
          wpc'[w] # wpc[w] => <<wpc[w], wpc'[w]>> \in WorkerOrder]_vars

\* A worker has hashed a changed file, run the command on it, updated the
\* counters and sent the Result, while a file that cannot be hashed was
\* counted as an error
C29_Witness ==
  /\ N = 2
  /\ \E i \in Entries : trace[i].ran = 1 /\ trace[i].sent = 1
  /\ \E i \in Entries : HashFails(i) /\ i \in Updated
  /\ progress.errors = 1

(***************************************************************************)
(* The audit map during a run                                               *)
(***************************************************************************)
\* C30: from the call of processFiles on, no step changes the audit map,
\* which stays the map loaded from the hashes file; and the hashes file
\* itself changes only when main loads it (a missing file is created) and
\* when main merges the staging file after processFiles has returned.
C30_AuditMapReadOnly ==
  /\ [][mpc # "main" => auditMap' = auditMap]_vars
  /\ [][store' # store => mpc \in {"main", "returned"}]_vars
  /\ []((loaded.called /\ exit # 1) =>
          /\ ~auditMap.isNil
          /\ SameMap(auditMap.m, MapOfFile(loaded.file)))

\* processFiles has returned with a changed file's new hash staged, the
\* audit map still recording the old hash
C30_Witness ==
  /\ mpc = "returned"
  /\ ~auditMap.isNil
  /\ \E k \in DOMAIN staging.entries :
       LET e == staging.entries[k]
       IN HasKey(auditMap, e.filename) /\ auditMap.m[e.filename] # e.hash

(***************************************************************************)
(* The progress counters                                                    *)
(***************************************************************************)
\* C31: in every state of a run, under every interleaving of the workers'
\* separate increments, changed + errors <= processed <= N, and no step
\* lowers any of the three counters.
C31_CountersBounded ==
  /\ [](/\ progress.changed + progress.errors <= progress.processed
        /\ progress.processed <= N)
  /\ [][/\ progress'.processed >= progress.processed
        /\ progress'.changed >= progress.changed
        /\ progress'.errors >= progress.errors]_vars

\* Two workers have both counted their changed file as processed and
\* neither has counted it as changed yet
C31_Witness ==
  /\ N = 2
  /\ progress.processed = 2
  /\ progress.changed = 0
  /\ \A w \in Workers : wpc[w] = "updateChanged"
  /\ cfg.workers = 2

\* C32: when processFiles has returned, the errors counter is N minus the
\* number of Results written: it counts the files whose hashing failed and
\* the files whose Result the exit-code filter discarded alike, and the
\* changed counter counts only the changed files that have a Result, so a
\* changed file that the filter discarded is an error and is not counted as
\* changed.
C32_ErrorsCountNoResult ==
  mpc = "returned" =>
    /\ progress.errors = N - Len(output)
    /\ progress.errors = Cardinality({i \in Entries : trace[i].res = <<>>})
    /\ \A i \in Entries : FilterDiscards(i) => trace[i].res = <<>>
    /\ progress.changed =
         Cardinality({i \in Entries : /\ trace[i].res # <<>>
                                      /\ trace[i].res[1].changed})
    /\ progress.changed <=
         Cardinality({i \in Entries : FileChanged(i) /\ ~FilterDiscards(i)})

\* A finished run on a changed file that the filter discarded and a file
\* that was kept: one error, no changed file, one Result
C32_Witness ==
  /\ mpc = "returned"
  /\ N = 2
  /\ \E i \in Entries : FileChanged(i) /\ FilterDiscards(i) /\ ~HashFails(i)
  /\ progress.errors = 1
  /\ progress.changed = 0
  /\ Len(output) = 1

(***************************************************************************)
(* Diagnostics                                                              *)
(***************************************************************************)
\* The entries whose Result a worker has sent
Sent == {i \in Entries : trace[i].sent > 0}

\* The messages that the events of a run that has returned call for
Diagnostics ==
  {LogEntry("hash", i) : i \in {j \in Entries : HashFails(j)}}
    \cup {LogEntry("run", i) :
            i \in {j \in Entries : trace[j].ran > 0 /\ shell[files[j]].kind = "spawn"}}
    \cup {LogEntry("hint", i) :
            i \in {j \in Entries : /\ trace[j].ran > 0 /\ trace[j].code = -1
                                   /\ cfg.filterOnCodes /\ -1 \notin cfg.errorCodes}}
    \cup (IF cfg.update /\ cfg.hashesFile # "" /\ ~creatable
            THEN {LogEntry("create", 0)} ELSE {})
    \cup (IF Sent # {} /\ ~Encodes(cfg) THEN {LogEntry("encode", 0)} ELSE {})
    \cup (IF /\ newEncoder /\ ~encodes.staging
             /\ \E i \in Sent : trace[i].res[1].exit_code = 0
            THEN {LogEntry("stage", 0)} ELSE {})

\* C33: in quiet mode processFiles logs nothing, whatever fails: hashing,
\* starting the command, a rejected -1, encoding a Result, creating or
\* writing the staging file.  Without quiet mode a run that has returned
\* has logged exactly the messages its failures call for.  In every mode
\* the output sink, standard output and the staging file hold nothing but
\* records of Results that processFile returned.
C33_QuietLogsNothing ==
  /\ cfg.quiet => log = {}
  /\ (mpc = "returned" /\ ~cfg.quiet) => log = Diagnostics
  /\ \A k \in DOMAIN output : \E i \in Sent : trace[i].res = <<output[k]>>
  /\ \A k \in DOMAIN stdout : \E i \in Sent : trace[i].res = <<stdout[k]>>
  /\ \A k \in DOMAIN staging.entries :
       \E i \in Sent : staging.entries[k] =
                         AuditEntry(trace[i].res[1].filename, trace[i].res[1].hash)

\* A quiet run has returned: a command could not be started and its -1 was
\* rejected, the other file's Result could not be encoded, and nothing was
\* logged
C33_Witness ==
  /\ cfg.quiet
  /\ mpc = "returned"
  /\ N = 2
  /\ \E i \in Entries : LogEntry("run", i) \in Diagnostics
                          /\ LogEntry("hint", i) \in Diagnostics
  /\ LogEntry("encode", 0) \in Diagnostics
  /\ log = {}

(***************************************************************************)
(* Independence of the schedule                                             *)
(***************************************************************************)
\* What processing the entries one after the other, in the order of the
\* list, writes to the output
InOrder ==
  LET out == [i \in Entries |-> processFile(files[i])]
      Kept(p) == p # <<>>
      kept == SelectSeq(out, Kept)
  IN [k \in DOMAIN kept |-> kept[k][1]]

\* C34: whatever the number of workers and the interleaving, a run that
\* has returned has written the Results that processing the files one
\* after the other would write, each as many times, and in update mode has
\* staged the records of those with exit code 0, each as many times: the
\* written Results and the staged records depend on the files, the
\* configuration, the audit map and the outcomes of the command only, up to
\* their order.
C34_SameResultsAnySchedule ==
  mpc = "returned" =>
    /\ BagOfSeq(output) = BagOfSeq(InOrder)
    /\ IF cfg.update /\ cfg.hashesFile # ""
         THEN BagOfSeq(staging.entries) = BagOfSeq(StagedOf(InOrder))
         ELSE staging = NoStaging

\* Two workers on two different files, in update mode: the Results were
\* written and staged in the reverse of the order of the list
C34_Witness ==
  /\ mpc = "returned"
  /\ cfg.workers = 2
  /\ N = 2
  /\ files[1] # files[2]
  /\ Len(output) = 2
  /\ output[1].filename = files[2]
  /\ Len(staging.entries) = 2
  /\ staging.entries[1].filename = files[2]

(***************************************************************************)
(* The staging file of a run                                                *)
(***************************************************************************)
\* The staging records of the Results that workers have sent in this run
RecordsOfRun ==
  {AuditEntry(trace[i].res[1].filename, trace[i].res[1].hash) : i \in Sent}

\* C35 as stated: in update mode the writer starts the staging file
\* afresh, so that nothing an earlier run left over survives: once the
\* writer has opened it, the staging file holds only records produced in
\* this run, and so does the staging file that main merges after the run;
\* when update mode is off the run has no staging file.
C35_StagingFresh ==
  /\ (cfg.update /\ wrpc \notin {"unstarted", "create"} /\ ~merged.called) =>
       Range(staging.entries) \subseteq RecordsOfRun
  /\ merged.called => Range(merged.staging.entries) \subseteq RecordsOfRun
  /\ ~cfg.update => staging = NoStaging

\* C36: in update mode, when the staging file cannot be created, the
\* writer logs the failure unless quiet mode is on and goes on: it has no
\* staging encoder, no step writes to a staging file, and the run is not
\* aborted: the writer drains the channel, signals, and processFiles
\* returns, having written every Result to the output sink.
C36_CreateFailureGoesOn ==
  /\ []((cfg.update /\ cfg.hashesFile # "" /\ ~creatable) =>
          /\ ~newEncoder
          /\ wrpc \notin {"unstarted", "create"} =>
               (LogEntry("create", 0) \in log <=> ~cfg.quiet)
          /\ ~panicked
          /\ mpc = "returned" =>
               /\ wrpc = "exited"
               /\ BagOfSeq(output) = BagOfSeq(InOrder))
  /\ [][(cfg.update /\ cfg.hashesFile # "" /\ ~creatable) =>
          staging' = staging]_vars
  /\ <>(mpc = "returned")

\* A run of two workers whose staging file could not be created has
\* returned: the failure was logged, both Results were written, nothing was
\* staged
C36_Witness ==
  /\ cfg.update /\ ~creatable /\ ~cfg.quiet
  /\ mpc = "returned"
  /\ cfg.workers = 2
  /\ LogEntry("create", 0) \in log
  /\ Len(output) = 2
  /\ staging = NoStaging

(***************************************************************************)
(* The files main hands to processFiles                                     *)
(***************************************************************************)
\* No goroutine of the pipeline was started and nothing was written
NothingProcessed ==
  /\ \A w \in Workers : wpc[w] = "unstarted"
  /\ wrpc = "unstarted"
  /\ progress.processed = 0
  /\ output = <<>>
  /\ \A i \in Entries : trace[i] = NoTrace

\* C37: when main was given a hashes file and no file name, and the hashes
\* file loads, the files handed to processFiles are the file names recorded
\* in the loaded audit map, each once; every Result of the run then has
\* audited = true, and when processFiles has returned every recorded file
\* was taken by a worker.  When main was given neither a file name nor a
\* hashes file the process exits with status 1, the hashes file is not
\* loaded and nothing is processed; this is the only way a run without
\* files and without a hashes file goes.
C37_FilesFromAuditMap ==
  /\ (loaded.called /\ loaded.args = <<>> /\ cfg.hashesFile # "" /\ exit # 1) =>
       /\ ~auditMap.isNil
       /\ Range(files) = DOMAIN auditMap.m
       /\ DOMAIN auditMap.m = DOMAIN MapOfFile(loaded.file)
       /\ Len(files) = Cardinality(Range(files))
       /\ \A r \in AllResults : r.audited
       /\ mpc \in {"returned", "exited"} =>
            \A i \in Entries : trace[i].taken = 1
  /\ (mpc # "main" /\ files = <<>> /\ cfg.hashesFile = "") =>
       /\ exit = 1
       /\ mpc = "exited"
       /\ ~loaded.called
       /\ NothingProcessed
  /\ (exit = 1 /\ ~loaded.called) => (files = <<>> /\ cfg.hashesFile = "")

\* main was given a hashes file that records two files and no file name:
\* both were processed and both Results are audited
C37_Witness ==
  /\ loaded.called /\ loaded.args = <<>> /\ cfg.hashesFile # ""
  /\ mpc = "exited" /\ exit = 0
  /\ Cardinality(DOMAIN auditMap.m) = 2
  /\ Len(output) = 2
  /\ \A k \in DOMAIN output : output[k].audited

====
